---- MODULE Spec2Model ----
(***************************************************************************)
(* A model of the Matryoshka / Nucleus document-analysis engine:           *)
(*   - the Nucleus MCP server (src/src/nucleus-mcp-server.ts): one module  *)
(*     level engine, the tool handlers nucleus_load / nucleus_query /      *)
(*     nucleus_bindings / nucleus_reset / nucleus_stats;                   *)
(*   - the RLM MCP server (src/src/mcp-server.ts): the engineSessions      *)
(*     cache and nucleus_execute;                                          *)
(*   - the relational synthesizers (src/src/logic/relational-solver.ts,    *)
(*     src/src/synthesis/relational/interpreter.ts and coordinator.ts).    *)
(* The NucleusEngine class (./engine/nucleus-engine.js) is imported by both *)
(* servers; its operations follow the written specification (sections 3,  *)
(* 4.D, 4.E).                                                              *)
(***************************************************************************)
EXTENDS Integers, Sequences, FiniteSets, TLC

VARIABLES
    engine,           \* nucleus-mcp-server.ts:31  the module-level engine (or null)
    currentDocument,  \* nucleus-mcp-server.ts:32  path of the last completed load
    pending,          \* nucleus_load calls suspended at `await engine.loadFile`
    resp,             \* the response of the last completed nucleus tool call
    engineSessions,   \* mcp-server.ts:127  session key -> engine
    gets,             \* getEngine calls suspended at `await engine.loadFile`
    mresp,            \* the response of the last completed nucleus_execute call
    examples,         \* the example list handed to a synthesis entry point
    out,              \* what the last synthesis call returned
    session,          \* the SynthesisSession of the coordinator
    sandboxes,        \* sandbox.ts: the closures createSandbox has made, by number
    sessions,         \* session.ts:204  file path -> Session
    creating,         \* getOrCreate calls suspended at `await createSandbox`
    running,          \* execute calls whose code is suspended at an llm query
    ret,              \* what the last sandbox or session-manager call returned
    scan,             \* sandbox.ts grep: the regex, its lastIndex and the results
    located,          \* what the last locate_line call returned
    fetching          \* the fetchWithRetry call of the DeepSeek provider

nucVars == <<engine, currentDocument, pending, resp>>
mcpVars == <<engineSessions, gets, mresp>>
synVars == <<examples, out, session>>
sbxVars == <<sandboxes, sessions, creating, running, ret>>
toolVars == <<scan, located, fetching>>
vars == <<engine, currentDocument, pending, resp, engineSessions, gets, mresp,
          examples, out, session,
          sandboxes, sessions, creating, running, ret, scan, located, fetching>>

(***************************************************************************)
(* Bounds of the model.                                                    *)
(***************************************************************************)
\* Turns explored per engine.
MaxTurn == 3
\* The configured history depth (spec 6.5: any integer >= 1, default 32),
\* chosen below MaxTurn so that the oldest entry is dropped within the run.
HistoryDepth == 2
\* nucleus_load / getEngine calls that may be suspended at the same time.
MaxPending == 2

Min(a, b) == IF a < b THEN a ELSE b

(***************************************************************************)
(* Values of the Nucleus engine (spec 3, Value): only Null, Int and the    *)
(* error records pushed to history are needed here.                        *)
(***************************************************************************)
VNull == [t |-> "null", n |-> 0, s |-> ""]
VInt(n) == [t |-> "int", n |-> n, s |-> ""]
VErr(kind) == [t |-> "err", n |-> 0, s |-> kind]

(***************************************************************************)
(* The file system read by loadFile: two documents (as line arrays) and a  *)
(* path that does not exist.                                               *)
(***************************************************************************)
Paths == {"a.txt", "b.txt", "missing.txt"}
NoFile == <<"<ENOENT>">>
FileContent(path) ==
    CASE path = "a.txt" -> <<"ERROR x">>
      [] path = "b.txt" -> <<"ERROR y", "ok">>
      [] OTHER -> NoFile

(***************************************************************************)
(* Commands a caller sends.  `src` is the command string as the handlers   *)
(* see it (only its emptiness matters to them); `op` is what the source    *)
(* text parses and evaluates to:                                           *)
(*   bad      "(bogus"                      -> ParseError                  *)
(*   lit      "1"                           -> Int 1                       *)
(*   null     "(if false 1)"                -> Null                        *)
(*   count    "(count (lines 1 100))"       -> Int line_count              *)
(*   let      "(let x 1)"                   -> binds x, Int 1              *)
(*   letfail  "(do (let x 2) (count))"      -> binds x, then ArityError    *)
(*   letres   "(let RESULTS 1)"             -> ReservedName                *)
(*   sym      "x"                           -> the value bound to x; an    *)
(*            error when x is unbound (the specification names no kind     *)
(*            for it: only that it does not depend on past turns matters)  *)
(***************************************************************************)
Cmd(src, op, n) == [src |-> src, op |-> op, n |-> n]
EmptyCommand == Cmd("", "none", 0)
Commands ==
    { EmptyCommand,
      Cmd("(bogus", "bad", 0),
      Cmd("1", "lit", 1),
      Cmd("(if false 1)", "null", 0),
      Cmd("(count (lines 1 100))", "count", 0),
      Cmd("(let x 1)", "let", 1),
      Cmd("(do (let x 2) (count))", "letfail", 2),
      Cmd("(let RESULTS 1)", "letres", 1),
      Cmd("x", "sym", 0) }

(***************************************************************************)
(* NucleusEngine, modelled from the specification.                         *)
(***************************************************************************)
\* `engine = null`
NoEngine ==
    [alive |-> FALSE, loaded |-> FALSE, doc |-> <<>>, turn |-> 0,
     results |-> VNull, hist |-> <<>>, x |-> VNull]

\* new NucleusEngine(): "A Session is created empty."
NewEngine == [NoEngine EXCEPT !.alive = TRUE]

isLoaded(e) == e.alive /\ e.loaded

\* reset that zeroes TURN and the reserved names but keeps the user bindings.
resetKeepsUserBindings(e) == [e EXCEPT !.turn = 0, !.results = VNull, !.hist = <<>>]

\* engine.reset(): "clears all bindings, resets TURN to 0; document retained."
reset(e) == [e EXCEPT !.turn = 0, !.results = VNull, !.hist = <<>>, !.x = VNull]

\* engine.loadFile / loadContent: "ingests content, rebuilds line index,
\* resets bindings and TURN."
loadContent(e, d) == [reset(e) EXCEPT !.loaded = TRUE, !.doc = d]

\* parse + evaluate one top-level expression against engine e:
\* [ok, val, x] with x the user binding after a successful evaluation.
Evaluate(e, c) ==
    CASE c.op = "lit" -> [ok |-> TRUE, val |-> VInt(c.n), x |-> e.x]
      [] c.op = "null" -> [ok |-> TRUE, val |-> VNull, x |-> e.x]
      [] c.op = "count" -> [ok |-> TRUE, val |-> VInt(Len(e.doc)), x |-> e.x]
      [] c.op = "let" -> [ok |-> TRUE, val |-> VInt(c.n), x |-> VInt(c.n)]
      [] c.op = "letfail" -> [ok |-> FALSE, val |-> VErr("ArityError"), x |-> VInt(c.n)]
      [] c.op = "letres" -> [ok |-> FALSE, val |-> VErr("ReservedName"), x |-> e.x]
      [] c.op = "sym" ->
            [ok |-> e.x # VNull,
             val |-> IF e.x # VNull THEN e.x ELSE VErr("UnboundSymbol"),
             x |-> e.x]
      [] OTHER -> [ok |-> FALSE, val |-> VErr("ParseError"), x |-> e.x]

\* Rotate without the depth bound.
RotateUnbounded(h, v) == <<v>> \o h

\* "rotates history (_N = _{N-1}, ..., _1 = new)", bounded to HistoryDepth.
Rotate(h, v) == SubSeq(<<v>> \o h, 1, Min(Len(h) + 1, HistoryDepth))

\* Commit that persists the bindings made before a failure.
CommitKeepsPartialLet(e, r) ==
    [e EXCEPT !.turn = @ + 1,
              !.hist = Rotate(@, r.val),
              !.results = IF r.ok /\ r.val # VNull THEN r.val ELSE @,
              !.x = r.x]

\* Commit that binds RESULTS on every successful turn, Null included.
CommitBindsNull(e, r) ==
    [e EXCEPT !.turn = @ + 1,
              !.hist = Rotate(@, r.val),
              !.results = IF r.ok THEN r.val ELSE @,
              !.x = IF r.ok THEN r.x ELSE @]

\* Commit that rotates history only for successful turns, so that a failed
\* turn advances TURN alone.
CommitRotatesOnSuccess(e, r) ==
    [e EXCEPT !.turn = @ + 1,
              !.hist = IF r.ok THEN Rotate(@, r.val) ELSE @,
              !.results = IF r.ok /\ r.val # VNull THEN r.val ELSE @,
              !.x = IF r.ok THEN r.x ELSE @]

\* Commit that takes TURN back by one when the turn failed.
CommitRewindsOnFailure(e, r) ==
    [e EXCEPT !.turn = IF r.ok THEN @ + 1 ELSE @ - 1,
              !.hist = Rotate(@, r.val),
              !.results = IF r.ok /\ r.val # VNull THEN r.val ELSE @,
              !.x = IF r.ok THEN r.x ELSE @]

\* The turn boundary: bind RESULTS, persist the user bindings of a
\* successful evaluation, rotate history, advance TURN.
Commit(e, r) ==
    [e EXCEPT !.turn = @ + 1,
              !.hist = Rotate(@, r.val),
              !.results = IF r.ok /\ r.val # VNull THEN r.val ELSE @,
              !.x = IF r.ok THEN r.x ELSE @]

\* engine.execute(command): the engine after the call.
execute(e, c) == Commit(e, Evaluate(e, c))

\* What execute returns to the handler.
ExecResult(e, c) ==
    LET r == Evaluate(e, c)
    IN [success |-> r.ok, value |-> r.val, turn |-> e.turn + 1]

\* engine.getBindings(): the snapshot of user + reserved names.
getBindings(e) == [RESULTS |-> e.results, TURN |-> e.turn, hist |-> e.hist, x |-> e.x]
NoBindings == getBindings(NoEngine)

(***************************************************************************)
(* nucleus-mcp-server.ts: handleToolCall.  A handler runs without          *)
(* interruption up to its next `await`; nucleus_load is the only handler   *)
(* that awaits (engine.loadFile), so it is two steps.                      *)
(***************************************************************************)
Resp(op, kind, value) == [op |-> op, kind |-> kind, value |-> value]

\* case "nucleus_load", lines 172-175: `if (!filePath) return error`
NucleusLoadNoPath ==
    /\ resp' = Resp("load", "FilePathRequired", VNull)
    /\ UNCHANGED <<engine, currentDocument, pending, mcpVars, synVars, sbxVars, toolVars>>

\* case "nucleus_load", lines 177-178: `engine = new NucleusEngine()` and the
\* call of engine.loadFile(filePath), whose promise is then awaited.
NucleusLoadBegin(path) ==
    /\ Cardinality(pending) < MaxPending
    /\ engine' = NewEngine
    /\ pending' = {[p EXCEPT !.cur = FALSE] : p \in pending}
                    \cup {[path |-> path, cur |-> TRUE]}
    /\ UNCHANGED <<currentDocument, resp, mcpVars, synVars, sbxVars, toolVars>>

\* The engine the module variable holds once the load p has resolved: the
\* load fills the engine it was started on, which is the module's engine
\* only if no later nucleus_load has replaced it.
EngineAfterLoad(p) ==
    IF p.cur THEN loadContent(engine, FileContent(p.path)) ELSE engine

\* case "nucleus_load", lines 178-193: loadFile resolved; currentDocument is
\* set and the stats of the module's engine are reported.
NucleusLoadOk(p) ==
    /\ p \in pending
    /\ FileContent(p.path) # NoFile
    /\ engine' = EngineAfterLoad(p)
    /\ currentDocument' = p.path
    /\ pending' = pending \ {p}
    /\ resp' = Resp("load", "ok",
                    IF isLoaded(engine') THEN VInt(Len(engine'.doc)) ELSE VNull)
    /\ UNCHANGED <<mcpVars, synVars, sbxVars, toolVars>>

\* case "nucleus_load" with loadFile rejecting: the catch of lines 266-269.
NucleusLoadFail(p) ==
    /\ p \in pending
    /\ FileContent(p.path) = NoFile
    /\ pending' = pending \ {p}
    /\ resp' = Resp("load", "LoadError", VNull)
    /\ UNCHANGED <<engine, currentDocument, mcpVars, synVars, sbxVars, toolVars>>

\* nucleus_query without the `if (!engine || !engine.isLoaded())` early
\* return.
NucleusQueryNoLoadCheck(c) ==
    IF c.src = ""
    THEN /\ resp' = Resp("query", "CommandRequired", VNull)
         /\ UNCHANGED <<engine, currentDocument, pending, mcpVars, synVars, sbxVars, toolVars>>
    ELSE /\ engine.turn < MaxTurn
         /\ engine' = execute(engine, c)
         /\ resp' = LET r == ExecResult(engine, c)
                    IN Resp("query", IF r.success THEN "ok" ELSE "EvalError", r.value)
         /\ UNCHANGED <<currentDocument, pending, mcpVars, synVars, sbxVars, toolVars>>

\* nucleus_query without the `if (!command)` early return.
NucleusQueryNoCommandCheck(c) ==
    IF ~isLoaded(engine)
    THEN /\ resp' = Resp("query", "NoDocument", VNull)
         /\ UNCHANGED <<engine, currentDocument, pending, mcpVars, synVars, sbxVars, toolVars>>
    ELSE /\ engine.turn < MaxTurn
         /\ engine' = execute(engine, c)
         /\ resp' = LET r == ExecResult(engine, c)
                    IN Resp("query", IF r.success THEN "ok" ELSE "EvalError", r.value)
         /\ UNCHANGED <<currentDocument, pending, mcpVars, synVars, sbxVars, toolVars>>

\* case "nucleus_query", lines 196-213.
NucleusQuery(c) ==
    IF ~isLoaded(engine)
    THEN /\ resp' = Resp("query", "NoDocument", VNull)
         /\ UNCHANGED <<engine, currentDocument, pending, mcpVars, synVars, sbxVars, toolVars>>
    ELSE IF c.src = ""
    THEN /\ resp' = Resp("query", "CommandRequired", VNull)
         /\ UNCHANGED <<engine, currentDocument, pending, mcpVars, synVars, sbxVars, toolVars>>
    ELSE /\ engine.turn < MaxTurn
         /\ engine' = execute(engine, c)
         /\ resp' = LET r == ExecResult(engine, c)
                    IN Resp("query", IF r.success THEN "ok" ELSE "EvalError", r.value)
         /\ UNCHANGED <<currentDocument, pending, mcpVars, synVars, sbxVars, toolVars>>

\* case "nucleus_bindings", lines 215-232.
NucleusBindings ==
    /\ resp' = IF ~engine.alive THEN Resp("bindings", "NoDocument", VNull)
               ELSE IF getBindings(engine) = NoBindings
               THEN Resp("bindings", "NoBindings", VNull)
               ELSE Resp("bindings", "ok", getBindings(engine).RESULTS)
    /\ UNCHANGED <<engine, currentDocument, pending, mcpVars, synVars, sbxVars, toolVars>>

\* nucleus_reset that starts over with a new engine.
NucleusResetNewEngine ==
    /\ engine' = IF engine.alive THEN NewEngine ELSE engine
    /\ resp' = Resp("reset", "ok", VNull)
    /\ UNCHANGED <<currentDocument, pending, mcpVars, synVars, sbxVars, toolVars>>

\* case "nucleus_reset", lines 234-239.
NucleusReset ==
    /\ engine' = IF engine.alive THEN reset(engine) ELSE engine
    /\ resp' = Resp("reset", "ok", VNull)
    /\ UNCHANGED <<currentDocument, pending, mcpVars, synVars, sbxVars, toolVars>>

\* case "nucleus_stats", lines 241-255.
NucleusStats ==
    /\ resp' = IF ~isLoaded(engine) THEN Resp("stats", "NoDocument", VNull)
               ELSE Resp("stats", "ok", VInt(Len(engine.doc)))
    /\ UNCHANGED <<engine, currentDocument, pending, mcpVars, synVars, sbxVars, toolVars>>

NucInit ==
    /\ engine = NoEngine
    /\ currentDocument = "none"
    /\ pending = {}
    /\ resp = Resp("none", "ok", VNull)

Next ==
    \/ NucleusLoadNoPath
    \/ \E path \in Paths : NucleusLoadBegin(path)
    \/ \E p \in pending : NucleusLoadOk(p)
    \/ \E p \in pending : NucleusLoadFail(p)
    \/ \E c \in Commands : NucleusQuery(c)
    \/ NucleusBindings
    \/ NucleusReset
    \/ NucleusStats

(***************************************************************************)
(* The RLM MCP server (src/mcp-server.ts): nucleus_execute keeps one       *)
(* engine per session key in engineSessions.  getEngine suspends at        *)
(* `await engine.loadFile(filePath)` when the key has no loaded engine;    *)
(* the suspended calls are the records of `gets`.                          *)
(***************************************************************************)
SessionIds == {"", "s1"}
\* A key that is always the file path.
SessionKeyIsPath(path, sid) == path

\* `const key = sessionId || filePath`, mcp-server.ts line 150.
SessionKey(path, sid) == IF sid # "" THEN sid ELSE path
McpPaths == {"a.txt", "missing.txt"}
Keys == (SessionIds \ {""}) \cup Paths
McpCommands == {c \in Commands : c.op \in {"none", "let", "letfail"}}
\* Turns held by the engines of the map, capped at MaxTurn in the guards.
RECURSIVE SumTurns(_)
SumTurns(ks) ==
    IF ks = {} THEN 0
    ELSE LET k == CHOOSE k \in ks : TRUE
         IN engineSessions[k].turn + SumTurns(ks \ {k})
TotalTurns == SumTurns(Keys)

\* What nucleus_execute answers after engine.execute, lines 197-237.
McpResult(e, c) ==
    LET r == ExecResult(e, c)
    IN Resp("execute", IF r.success THEN "ok" ELSE "EvalError", r.value)

\* nucleus_execute up to its return or up to the await inside getEngine,
\* lines 182-197 with getEngine lines 149-157.
McpExecute(c, path, sid) ==
    IF c.src = "" \/ path = ""
    THEN /\ mresp' = Resp("execute", "ArgsRequired", VNull)
         /\ UNCHANGED <<engineSessions, gets, nucVars, synVars, sbxVars, toolVars>>
    ELSE LET key == SessionKey(path, sid)
             e == engineSessions[key]
         IN IF isLoaded(e)
            THEN /\ TotalTurns < MaxTurn
                 /\ engineSessions' = [engineSessions EXCEPT ![key] = execute(e, c)]
                 /\ mresp' = McpResult(e, c)
                 /\ UNCHANGED <<gets, nucVars, synVars, sbxVars, toolVars>>
            ELSE /\ Cardinality(gets) < MaxPending
                 /\ TotalTurns < MaxTurn
                 /\ gets' = gets \cup {[key |-> key, path |-> path, c |-> c]}
                 /\ UNCHANGED <<engineSessions, mresp, nucVars, synVars, sbxVars, toolVars>>

\* loadFile resolves: getEngine lines 158-160, then nucleus_execute lines
\* 197-237 on the engine getEngine returned.
McpLoadOk(g) ==
    /\ g \in gets
    /\ FileContent(g.path) # NoFile
    /\ LET e == loadContent(NewEngine, FileContent(g.path))
       IN /\ engineSessions' = [engineSessions EXCEPT ![g.key] = execute(e, g.c)]
          /\ mresp' = McpResult(e, g.c)
    /\ gets' = gets \ {g}
    /\ UNCHANGED <<nucVars, synVars, sbxVars, toolVars>>

\* loadFile rejects: the catch of nucleus_execute, lines 238-243.
McpLoadFail(g) ==
    /\ g \in gets
    /\ FileContent(g.path) = NoFile
    /\ gets' = gets \ {g}
    /\ mresp' = Resp("execute", "LoadError", VNull)
    /\ UNCHANGED <<engineSessions, nucVars, synVars, sbxVars, toolVars>>

\* `new Map()`, line 127; an absent key is NoEngine.
McpIdle ==
    /\ engineSessions = [k \in Keys |-> NoEngine]
    /\ gets = {}
    /\ mresp = Resp("none", "ok", VNull)

McpNext ==
    \/ \E c \in McpCommands, path \in McpPaths \cup {""}, sid \in SessionIds :
           McpExecute(c, path, sid)
    \/ \E g \in gets : McpLoadOk(g)
    \/ \E g \in gets : McpLoadFail(g)

\* nucleus_execute called with any of the files, two of them readable.
McpFilesNext ==
    \/ \E c \in McpCommands, path \in Paths \cup {""}, sid \in SessionIds :
           McpExecute(c, path, sid)
    \/ \E g \in gets : McpLoadOk(g)
    \/ \E g \in gets : McpLoadFail(g)

(***************************************************************************)
(* Synthesis (src/logic/relational-solver.ts and                           *)
(* src/synthesis/relational/*.ts).                                         *)
(*                                                                         *)
(* JavaScript values.  A string is the sequence of its characters; a       *)
(* number is kept in hundredths (n = 100 * value), which is exact for the  *)
(* decimal strings of at most two fraction digits used below; NaN, null    *)
(* and undefined are tags.  JThrow stands for an evaluation that raised.   *)
(***************************************************************************)
JNum(h) == [t |-> "number", n |-> h, s |-> <<>>]
JStr(s) == [t |-> "string", n |-> 0, s |-> s]
JNaN == [t |-> "NaN", n |-> 0, s |-> <<>>]
JNull == [t |-> "null", n |-> 0, s |-> <<>>]
JUndefined == [t |-> "undefined", n |-> 0, s |-> <<>>]
JThrow == [t |-> "throw", n |-> 0, s |-> <<>>]

\* `a === b`: no coercion between types, and NaN equals nothing.
StrictEq(a, b) == a.t \notin {"NaN", "throw"} /\ a = b
\* `typeof v`
TypeOf(v) ==
    CASE v.t \in {"number", "NaN"} -> "number"
      [] v.t = "string" -> "string"
      [] v.t = "undefined" -> "undefined"
      [] OTHER -> "object"

Digit == {"0", "1", "2", "3", "4", "5", "6", "7", "8", "9"}
LowerSeq == <<"a", "b", "c", "d", "e", "f", "g", "h", "i", "j", "k", "l", "m", "n", "o", "p", "q", "r", "s", "t", "u", "v", "w", "x", "y", "z">>
UpperSeq == <<"A", "B", "C", "D", "E", "F", "G", "H", "I", "J", "K", "L", "M", "N", "O", "P", "Q", "R", "S", "T", "U", "V", "W", "X", "Y", "Z">>
Lower == {LowerSeq[i] : i \in 1..Len(LowerSeq)}
Upper == {UpperSeq[i] : i \in 1..Len(UpperSeq)}
Alpha == Lower \cup Upper
Space == {" "}
\* Every character of the strings of the model; none is a line terminator.
Alphabet ==
    Digit \cup Alpha \cup Space
    \cup {"$", ",", ".", "-", "%", "#", ":", ";", "/", "(", ")", "+"}

DigitValue(ch) ==
    CASE ch = "0" -> 0 [] ch = "1" -> 1 [] ch = "2" -> 2 [] ch = "3" -> 3
      [] ch = "4" -> 4 [] ch = "5" -> 5 [] ch = "6" -> 6 [] ch = "7" -> 7
      [] ch = "8" -> 8 [] ch = "9" -> 9

\* Position of ch in q, 0 when absent.
IndexOf(q, ch) ==
    IF \E i \in 1..Len(q) : q[i] = ch
    THEN CHOOSE i \in 1..Len(q) : q[i] = ch /\ \A j \in 1..(i - 1) : q[j] # ch
    ELSE 0
LastIndexOf(q, ch) ==
    IF \E i \in 1..Len(q) : q[i] = ch
    THEN CHOOSE i \in 1..Len(q) : q[i] = ch /\ \A j \in (i + 1)..Len(q) : q[j] # ch
    ELSE 0

\* String.prototype.toUpperCase / toLowerCase
toUpperCase(s) ==
    [i \in 1..Len(s) |->
        IF s[i] \in Lower THEN UpperSeq[IndexOf(LowerSeq, s[i])] ELSE s[i]]
toLowerCase(s) ==
    [i \in 1..Len(s) |->
        IF s[i] \in Upper THEN LowerSeq[IndexOf(UpperSeq, s[i])] ELSE s[i]]

\* String.prototype.trim
trim(s) ==
    LET keep == {i \in 1..Len(s) : s[i] \notin Space}
    IN IF keep = {} THEN <<>>
       ELSE SubSeq(s, CHOOSE i \in keep : \A j \in keep : i <= j,
                      CHOOSE i \in keep : \A j \in keep : i >= j)

\* s.replace(/ch/g, to) for a one-character pattern.
RECURSIVE ReplaceAll(_, _, _)
ReplaceAll(s, ch, to) ==
    IF s = <<>> THEN <<>>
    ELSE (IF Head(s) = ch THEN to ELSE <<Head(s)>>) \o ReplaceAll(Tail(s), ch, to)
\* s.replace(ch, to): the first occurrence only.
ReplaceFirst(s, ch, to) ==
    LET i == IndexOf(s, ch)
    IN IF i = 0 THEN s ELSE SubSeq(s, 1, i - 1) \o to \o SubSeq(s, i + 1, Len(s))

\* s.split(delim) for a one-character delimiter.
RECURSIVE SplitParts(_, _)
SplitParts(s, delim) ==
    LET i == IndexOf(s, delim)
    IN IF i = 0 THEN <<s>>
       ELSE <<SubSeq(s, 1, i - 1)>> \o SplitParts(SubSeq(s, i + 1, Len(s)), delim)

\* s.padStart(2, "0")
PadStart2(s) ==
    CASE Len(s) = 0 -> <<"0", "0">>
      [] Len(s) = 1 -> <<"0">> \o s
      [] OTHER -> s

(***************************************************************************)
(* Regular expressions.  A compiled expression is a sequence of items,     *)
(* each a character class repeated min..max times (greedy), with the       *)
(* number of the capture group it is, or 0; ^ and $ are the two flags.     *)
(* Every expression of the sources used here has this shape.               *)
(***************************************************************************)
Inf == 1000000
It(cls, min, max, cap) == [cls |-> cls, min |-> min, max |-> max, cap |-> cap]
Re(items, bol, eol) == [items |-> items, bol |-> bol, eol |-> eol]
Fail == <<-1>>

\* Length of the run of characters of cls that starts at s[i], at most max.
RECURSIVE RunLen(_, _, _, _)
RunLen(s, i, cls, max) ==
    IF max = 0 \/ i > Len(s) \/ s[i] \notin cls THEN 0
    ELSE 1 + RunLen(s, i + 1, cls, max - 1)

\* The backtracking matcher: the lengths matched by each item when the items
\* match at position i, or Fail.  Backtrack tries the first item n times and
\* then the rest, and gives one repetition back each time the rest fails.
RECURSIVE MatchItems(_, _, _, _), Backtrack(_, _, _, _, _)
Backtrack(s, i, items, eol, n) ==
    IF n < Head(items).min THEN Fail
    ELSE LET Rest(r) == IF r = Fail THEN Backtrack(s, i, items, eol, n - 1)
                        ELSE <<n>> \o r
         IN Rest(MatchItems(s, i + n, Tail(items), eol))
MatchItems(s, i, items, eol) ==
    IF items = <<>>
    THEN IF eol /\ i # Len(s) + 1 THEN Fail ELSE <<>>
    ELSE Backtrack(s, i, items, eol, RunLen(s, i, Head(items).cls, Head(items).max))

RECURSIVE SumTo(_, _)
SumTo(lens, k) == IF k = 0 THEN 0 ELSE lens[k] + SumTo(lens, k - 1)
\* The match that starts at i or, failing that, at the next position.  In
\* the match array of a match whose items matched lens, groups[g + 1] is
\* group g.
RECURSIVE MatchFrom(_, _, _)
MatchFrom(s, re, i) ==
    IF i > Len(s) + 1 \/ (re.bol /\ i > 1) THEN [found |-> FALSE, groups |-> <<>>]
    ELSE LET Last(caps) == CHOOSE g \in caps \cup {0} : \A h \in caps : g >= h
             Captures(lens, last) ==
                 [found |-> TRUE,
                  groups |-> [g \in 1..(last + 1) |->
                      IF g = 1 THEN SubSeq(s, i, i + SumTo(lens, Len(lens)) - 1)
                      ELSE LET k == CHOOSE k \in 1..Len(re.items) :
                                        re.items[k].cap = g - 1
                           IN SubSeq(s, i + SumTo(lens, k - 1),
                                     i + SumTo(lens, k) - 1)]]
             Try(lens) ==
                 IF lens = Fail THEN MatchFrom(s, re, i + 1)
                 ELSE Captures(lens, Last({re.items[k].cap : k \in 1..Len(re.items)}))
         IN Try(MatchItems(s, i, re.items, re.eol))
\* s.match(re) without the g flag: the leftmost match, or found = FALSE.
RegexMatch(s, re) == MatchFrom(s, re, 1)
RegexTest(s, re) == RegexMatch(s, re).found

Lit(ch) == It({ch}, 1, 1, 0)
\* new RegExp(pattern) for the pattern strings of the sources.
Regex(pattern) ==
    CASE pattern = "\\$([\\d,]+)" ->
            Re(<<Lit("$"), It(Digit \cup {","}, 1, Inf, 1)>>, FALSE, FALSE)
      [] pattern = "\\$([\\d,\\.]+)" ->
            Re(<<Lit("$"), It(Digit \cup {",", "."}, 1, Inf, 1)>>, FALSE, FALSE)
      [] pattern = "\\$([\\d,.]+)" ->
            Re(<<Lit("$"), It(Digit \cup {",", "."}, 1, Inf, 1)>>, FALSE, FALSE)
      [] pattern = "(\\d+)%" ->
            Re(<<It(Digit, 1, Inf, 1), Lit("%")>>, FALSE, FALSE)
      [] pattern = "(\\d+)" ->
            Re(<<It(Digit, 1, Inf, 1)>>, FALSE, FALSE)
      [] pattern = "([\\d,]+)" ->
            Re(<<It(Digit \cup {","}, 1, Inf, 1)>>, FALSE, FALSE)
      [] pattern = ":\\s*\\$?([\\d,]+)" ->
            Re(<<Lit(":"), It(Space, 0, Inf, 0), It({"$"}, 0, 1, 0),
                 It(Digit \cup {","}, 1, Inf, 1)>>, FALSE, FALSE)
      [] pattern = "#(\\d+)" ->
            Re(<<Lit("#"), It(Digit, 1, Inf, 1)>>, FALSE, FALSE)
      [] pattern = ":\\s*([^)]+)" ->
            Re(<<Lit(":"), It(Space, 0, Inf, 0),
                 It(Alphabet \ {")"}, 1, Inf, 1)>>, FALSE, FALSE)
      [] pattern = "Q(\\d)-(\\d+)" ->
            Re(<<Lit("Q"), It(Digit, 1, 1, 1), Lit("-"), It(Digit, 1, Inf, 2)>>,
               FALSE, FALSE)
      [] pattern = "[A-Za-z]+\\s+\\d+,?\\s+\\d+" ->
            Re(<<It(Alpha, 1, Inf, 0), It(Space, 1, Inf, 0), It(Digit, 1, Inf, 0),
                 It({","}, 0, 1, 0), It(Space, 1, Inf, 0), It(Digit, 1, Inf, 0)>>,
               FALSE, FALSE)
      [] pattern = "\\d+-[A-Za-z]+-\\d+" ->
            Re(<<It(Digit, 1, Inf, 0), Lit("-"), It(Alpha, 1, Inf, 0), Lit("-"),
                 It(Digit, 1, Inf, 0)>>, FALSE, FALSE)
      [] pattern = ".*" ->
            Re(<<It(Alphabet, 0, Inf, 0)>>, FALSE, FALSE)
      [] pattern = "Q\\d-\\d+" ->
            Re(<<Lit("Q"), It(Digit, 1, 1, 0), Lit("-"), It(Digit, 1, Inf, 0)>>,
               FALSE, FALSE)
      [] pattern = "^(\\d+)-(\\d+)$" ->
            Re(<<It(Digit, 1, Inf, 1), Lit("-"), It(Digit, 1, Inf, 2)>>, TRUE, TRUE)
      [] pattern = "^\\d{4}-\\d{2}" ->
            Re(<<It(Digit, 4, 4, 0), Lit("-"), It(Digit, 2, 2, 0)>>, TRUE, FALSE)

(***************************************************************************)
(* Number parsing.  Exponents are not read: no string of the model has an  *)
(* exponent part.                                                          *)
(***************************************************************************)
RECURSIVE DigitsValue(_)
DigitsValue(ds) ==
    IF ds = <<>> THEN 0
    ELSE 10 * DigitsValue(SubSeq(ds, 1, Len(ds) - 1)) + DigitValue(ds[Len(ds)])

\* The string without its leading white space.
TrimStart(s) ==
    LET keep == {i \in 1..Len(s) : s[i] \notin Space}
    IN IF keep = {} THEN <<>>
       ELSE SubSeq(s, CHOOSE i \in keep : \A j \in keep : i <= j, Len(s))

\* The global parseInt(s, 10) on a string: t is the string without leading
\* white space, its digits start at from and are nd many.
JsParseInt(s) ==
    LET Digits(t, from, nd) ==
            IF nd = 0 THEN JNaN
            ELSE JNum((IF t[1] = "-" THEN 0 - 100 ELSE 100)
                      * DigitsValue(SubSeq(t, from, from + nd - 1)))
        Signed(t, from) == Digits(t, from, RunLen(t, from, Digit, Inf))
        Of(t) == Signed(t, IF t # <<>> /\ t[1] \in {"-", "+"} THEN 2 ELSE 1)
    IN Of(TrimStart(s))

\* The global parseFloat(s) on a string: ni digits, then a point and nf
\* digits.
JsParseFloat(s) ==
    LET Digits(t, from, ni, nf) ==
            IF ni + nf = 0 THEN JNaN
            ELSE JNum((IF t[1] = "-" THEN 0 - 1 ELSE 1)
                      * (100 * DigitsValue(SubSeq(t, from, from + ni - 1))
                         + DigitsValue(SubSeq(SubSeq(t, from + ni + 1, from + ni + nf)
                                              \o <<"0", "0">>, 1, 2))))
        Whole(t, from, ni) ==
            Digits(t, from, ni,
                   IF from + ni <= Len(t) /\ t[from + ni] = "."
                   THEN RunLen(t, from + ni + 1, Digit, Inf) ELSE 0)
        Signed(t, from) == Whole(t, from, RunLen(t, from, Digit, Inf))
        Of(t) == Signed(t, IF t # <<>> /\ t[1] \in {"-", "+"} THEN 2 ELSE 1)
    IN Of(TrimStart(s))

(***************************************************************************)
(* relational-solver.ts: helper functions.                                 *)
(***************************************************************************)
MONTHS ==
    << <<<<"j", "a", "n">>, <<"0", "1">>>>, <<<<"j", "a", "n", "u", "a", "r", "y">>, <<"0", "1">>>>,
       <<<<"f", "e", "b">>, <<"0", "2">>>>, <<<<"f", "e", "b", "r", "u", "a", "r", "y">>, <<"0", "2">>>>,
       <<<<"m", "a", "r">>, <<"0", "3">>>>, <<<<"m", "a", "r", "c", "h">>, <<"0", "3">>>>,
       <<<<"a", "p", "r">>, <<"0", "4">>>>, <<<<"a", "p", "r", "i", "l">>, <<"0", "4">>>>,
       <<<<"m", "a", "y">>, <<"0", "5">>>>,
       <<<<"j", "u", "n">>, <<"0", "6">>>>, <<<<"j", "u", "n", "e">>, <<"0", "6">>>>,
       <<<<"j", "u", "l">>, <<"0", "7">>>>, <<<<"j", "u", "l", "y">>, <<"0", "7">>>>,
       <<<<"a", "u", "g">>, <<"0", "8">>>>, <<<<"a", "u", "g", "u", "s", "t">>, <<"0", "8">>>>,
       <<<<"s", "e", "p">>, <<"0", "9">>>>, <<<<"s", "e", "p", "t", "e", "m", "b", "e", "r">>, <<"0", "9">>>>,
       <<<<"o", "c", "t">>, <<"1", "0">>>>, <<<<"o", "c", "t", "o", "b", "e", "r">>, <<"1", "0">>>>,
       <<<<"n", "o", "v">>, <<"1", "1">>>>, <<<<"n", "o", "v", "e", "m", "b", "e", "r">>, <<"1", "1">>>>,
       <<<<"d", "e", "c">>, <<"1", "2">>>>, <<<<"d", "e", "c", "e", "m", "b", "e", "r">>, <<"1", "2">>>> >>
\* MONTHS[name], <<>> when the name is no key.
MonthOf(name) ==
    LET Lookup(table) ==
            IF \E k \in 1..Len(table) : table[k][1] = name
            THEN table[CHOOSE k \in 1..Len(table) : table[k][1] = name][2]
            ELSE <<>>
    IN Lookup(MONTHS)

IsoDate ==
    Re(<<It(Digit, 4, 4, 1), Lit("-"), It(Digit, 2, 2, 2), Lit("-"),
         It(Digit, 2, 2, 3)>>, TRUE, TRUE)
NaturalDate ==
    Re(<<It(Alpha, 1, Inf, 1), It(Space, 1, Inf, 0), It(Digit, 1, 2, 2),
         It({","}, 0, 1, 0), It(Space, 1, Inf, 0), It(Digit, 4, 4, 3)>>, TRUE, TRUE)
DmyDate ==
    Re(<<It(Digit, 1, 2, 1), It(Space, 1, Inf, 0), It(Alpha, 1, Inf, 2),
         It(Space, 1, Inf, 0), It(Digit, 4, 4, 3)>>, TRUE, TRUE)
ShortDate ==
    Re(<<It(Digit, 1, 2, 1), Lit("-"), It(Alpha, 1, Inf, 2), Lit("-"),
         It(Digit, 2, 2, 3)>>, TRUE, TRUE)

\* parseDateImpl(str) without a format hint (the candidates pass none, so
\* the US and EU branches are not taken); the result is a JS value.  Each
\* format is tried when the one before it did not match or named no month.
parseDateImpl(str) ==
    LET Dated(m, month, y, d, rest) ==
            IF m.found /\ month # <<>>
            THEN JStr(y \o <<"-">> \o month \o <<"-">> \o PadStart2(d))
            ELSE rest
        Month(name) == MonthOf(toLowerCase(name))
        Year(yy) == (IF JsParseInt(yy).n < 5000
                     THEN <<"2", "0">> ELSE <<"1", "9">>) \o yy
        Short(sh) ==
            Dated(sh, Month(sh.groups[3]), Year(sh.groups[4]), sh.groups[2], JNull)
        Dmy(trimmed, dmy) ==
            Dated(dmy, Month(dmy.groups[3]), dmy.groups[4], dmy.groups[2],
                  Short(RegexMatch(trimmed, ShortDate)))
        Natural(trimmed, nat) ==
            Dated(nat, Month(nat.groups[2]), nat.groups[4], nat.groups[3],
                  Dmy(trimmed, RegexMatch(trimmed, DmyDate)))
        Of(trimmed) ==
            IF RegexTest(trimmed, IsoDate) THEN JStr(trimmed)
            ELSE Natural(trimmed, RegexMatch(trimmed, NaturalDate))
    IN Of(trim(str))

NegParen ==
    Re(<<Lit("("), It(Alphabet \ {")"}, 1, Inf, 1), Lit(")")>>, TRUE, TRUE)
NegMinus == Re(<<Lit("-"), It(Alphabet, 1, Inf, 1)>>, TRUE, TRUE)
\* The currency symbols of /^[\$...]/ that are in Alphabet.
CurrencySymbols == {"$"}
DecimalComma ==
    Re(<<It(Alphabet \ {","}, 1, Inf, 1), Lit(","), It(Digit, 2, 2, 2)>>, TRUE, TRUE)

Negate(v) == IF v.t = "number" THEN JNum(0 - v.n) ELSE v
NullIfNaN(v) == IF v.t = "NaN" THEN JNull ELSE v

RECURSIVE parseCurrencyImpl(_)
parseCurrencyImpl(str) ==
    LET Cleaned(stripped, hasComma, hasDot) ==
            IF hasComma /\ hasDot
            THEN IF LastIndexOf(stripped, ",") > LastIndexOf(stripped, ".")
                 THEN ReplaceFirst(ReplaceAll(stripped, ".", <<>>), ",", <<".">>)
                 ELSE ReplaceAll(stripped, ",", <<>>)
            ELSE IF hasComma
            THEN IF RegexTest(stripped, DecimalComma)
                 THEN ReplaceFirst(stripped, ",", <<".">>)
                 ELSE ReplaceAll(stripped, ",", <<>>)
            ELSE stripped
        Plain(stripped) ==
            NullIfNaN(JsParseFloat(Cleaned(stripped, IndexOf(stripped, ",") # 0,
                                           IndexOf(stripped, ".") # 0)))
        Unsigned(trimmed) ==
            Plain(trim(IF trimmed # <<>> /\ trimmed[1] \in CurrencySymbols
                       THEN Tail(trimmed) ELSE trimmed))
        Minus(trimmed, negMinusMatch) ==
            IF negMinusMatch.found
            THEN Negate(parseCurrencyImpl(negMinusMatch.groups[2]))
            ELSE Unsigned(trimmed)
        Paren(trimmed, negParenMatch) ==
            IF negParenMatch.found
            THEN Negate(parseCurrencyImpl(negParenMatch.groups[2]))
            ELSE Minus(trimmed, RegexMatch(trimmed, NegMinus))
        Of(trimmed) == Paren(trimmed, RegexMatch(trimmed, NegParen))
    IN Of(trim(str))

Percent == Re(<<It(Digit \cup {".", ","}, 1, Inf, 1), Lit("%")>>, TRUE, TRUE)
Scientific ==
    Re(<<It(Digit \cup {"."}, 1, Inf, 0), It({"e", "E"}, 1, 1, 0),
         It({"+", "-"}, 0, 1, 0), It(Digit, 1, Inf, 0)>>, TRUE, TRUE)

\* num / 100 is exact here when num is a whole number.
parseNumberImpl(str) ==
    LET Hundredth(num) == IF num.t = "NaN" THEN JNull ELSE JNum(num.n \div 100)
        Plain(trimmed) ==
            NullIfNaN(JsParseFloat(IF RegexTest(trimmed, Scientific) THEN trimmed
                                   ELSE ReplaceAll(trimmed, ",", <<>>)))
        Of(trimmed, percentMatch) ==
            IF percentMatch.found
            THEN Hundredth(JsParseFloat(ReplaceAll(percentMatch.groups[2], ",", <<>>)))
            ELSE Plain(trimmed)
        Trimmed(trimmed) == Of(trimmed, RegexMatch(trimmed, Percent))
    IN Trimmed(trim(str))

(***************************************************************************)
(* relational-solver.ts: PRIMITIVES and evaluateComposition.               *)
(***************************************************************************)
NoArgs == [pattern |-> "", group |-> 0, from |-> "", to |-> <<>>, delim |-> "", index |-> 0]
Step(primitive, args) == [primitive |-> primitive, args |-> args]
MatchArgs(pattern, group) == [NoArgs EXCEPT !.pattern = pattern, !.group = group]
ReplaceArgs(from, to) == [NoArgs EXCEPT !.from = from, !.to = to]
SplitArgs(delim, index) == [NoArgs EXCEPT !.delim = delim, !.index = index]

\* parseInt of a number: its integer part.
Truncate(n) == JNum(IF n >= 0 THEN (n \div 100) * 100 ELSE 0 - ((0 - n) \div 100) * 100)
\* String(input) followed by .replace(/,/g, "") and parseFloat (float) or
\* parseInt, for the parseInt and parseFloat primitives.
ParseStripped(input, float) ==
    CASE input.t \in {"null", "undefined"} -> JNaN
      [] input.t = "string" ->
            IF float THEN JsParseFloat(ReplaceAll(input.s, ",", <<>>))
            ELSE JsParseInt(ReplaceAll(input.s, ",", <<>>))
      [] input.t = "number" -> IF float THEN JNum(input.n) ELSE Truncate(input.n)
      [] OTHER -> JNaN

PRIMITIVES(primitive, input, args) ==
    CASE primitive = "match" ->
            LET Picked(result) ==
                    IF ~result.found THEN JNull
                    ELSE IF args.group + 1 > Len(result.groups) THEN JNull
                    ELSE JStr(result.groups[args.group + 1])
            IN IF input.t # "string" THEN JNull
               ELSE Picked(RegexMatch(input.s, Regex(args.pattern)))
      [] primitive = "replace" ->
            IF input.t # "string" THEN JNull
            ELSE JStr(ReplaceAll(input.s, args.from, args.to))
      [] primitive = "split" ->
            LET Part(parts) == IF args.index + 1 > Len(parts) THEN JNull
                               ELSE JStr(parts[args.index + 1])
            IN IF input.t # "string" THEN JNull
               ELSE Part(SplitParts(input.s, args.delim))
      [] primitive = "parseInt" -> ParseStripped(input, FALSE)
      [] primitive = "parseFloat" -> ParseStripped(input, TRUE)
      [] primitive = "parseDate" ->
            IF input.t # "string" THEN JNull ELSE parseDateImpl(input.s)
      [] primitive = "parseCurrency" ->
            IF input.t # "string" THEN JNull ELSE parseCurrencyImpl(input.s)
      [] primitive = "parseNumber" ->
            IF input.t # "string" THEN JNull ELSE parseNumberImpl(input.s)
      [] primitive = "toUpperCase" ->
            IF input.t # "string" THEN JNull ELSE JStr(toUpperCase(input.s))
      [] primitive = "toLowerCase" ->
            IF input.t # "string" THEN JNull ELSE JStr(toLowerCase(input.s))
      [] primitive = "trim" ->
            IF input.t # "string" THEN JNull ELSE JStr(trim(input.s))

\* evaluateComposition(composition, input): the steps in order, null as soon
\* as a step yields null or undefined.
RECURSIVE RunSteps(_, _)
RunSteps(steps, current) ==
    IF steps = <<>> THEN current
    ELSE LET Then(next) == IF next.t \in {"null", "undefined"} THEN JNull
                           ELSE RunSteps(Tail(steps), next)
         IN Then(PRIMITIVES(Head(steps).primitive, current, Head(steps).args))
evaluateComposition(composition, input) == RunSteps(composition.steps, JStr(input))

(***************************************************************************)
(* relational-solver.ts: candidate generators and the search.              *)
(***************************************************************************)
COMMON_PATTERNS ==
    << MatchArgs("\\$([\\d,]+)", 1),
       MatchArgs("\\$([\\d,.]+)", 1),
       MatchArgs("(\\d+)", 1),
       MatchArgs("([\\d,]+)", 1),
       MatchArgs("(\\d+)%", 1),
       MatchArgs("#(\\d+)", 1),
       MatchArgs(":\\s*([^)]+)", 1),
       MatchArgs("Q(\\d)-(\\d+)", 0),
       MatchArgs("[A-Za-z]+\\s+\\d+,?\\s+\\d+", 0),
       MatchArgs("\\d+-[A-Za-z]+-\\d+", 0) >>

Composition(steps) == [steps |-> steps]
RECURSIVE Flatten(_)
Flatten(qq) == IF qq = <<>> THEN <<>> ELSE Head(qq) \o Flatten(Tail(qq))

\* The compositions generateNumberExtractionCandidates yields, in order.
generateNumberExtractionCandidates ==
    << Composition(<<Step("parseInt", NoArgs)>>),
       Composition(<<Step("parseFloat", NoArgs)>>),
       Composition(<<Step("parseCurrency", NoArgs)>>),
       Composition(<<Step("parseNumber", NoArgs)>>) >>
    \o Flatten([k \in 1..Len(COMMON_PATTERNS) |->
         LET m == Step("match", COMMON_PATTERNS[k])
             strip == Step("replace", ReplaceArgs(",", <<>>))
         IN << Composition(<<m, Step("parseInt", NoArgs)>>),
               Composition(<<m, Step("parseFloat", NoArgs)>>),
               Composition(<<m, Step("parseCurrency", NoArgs)>>),
               Composition(<<m, Step("parseNumber", NoArgs)>>),
               Composition(<<m, strip, Step("parseInt", NoArgs)>>),
               Composition(<<m, strip, Step("parseFloat", NoArgs)>> ) >>])

Delims == <<",", ";", ":", " ", "-", "/">>
\* The compositions generateStringExtractionCandidates yields, in order.
generateStringExtractionCandidates ==
    << Composition(<<Step("trim", NoArgs)>>),
       Composition(<<Step("toUpperCase", NoArgs)>>),
       Composition(<<Step("toLowerCase", NoArgs)>>),
       Composition(<<Step("parseDate", NoArgs)>>) >>
    \o Flatten([k \in 1..Len(COMMON_PATTERNS) |->
         LET m == Step("match", COMMON_PATTERNS[k])
         IN << Composition(<<m>>),
               Composition(<<m, Step("parseDate", NoArgs)>>) >>])
    \o Flatten([k \in 1..(Len(Delims) * 5) |->
         LET sp == Step("split", SplitArgs(Delims[((k - 1) \div 5) + 1], (k - 1) % 5))
         IN << Composition(<<sp>>),
               Composition(<<sp, Step("trim", NoArgs)>>) >>])

generateQuarterMappingCandidates ==
    << Composition(<<Step("match", MatchArgs("Q(\\d)-(\\d+)", 0))>>) >>

\* An example is a record [input, output]: the input a string, the output
\* a JS value.
Ex(input, output) == [input |-> input, output |-> output]

\* The inner loops of searchComposition: the candidate maps every example to
\* its output.
AllMatch(candidate, exs) ==
    \A k \in 1..Len(exs) :
        StrictEq(evaluateComposition(candidate, exs[k].input), exs[k].output)

\* The generators searchComposition chooses from the first output.
Generators(exs) ==
    LET Chosen(firstOutput, outputType, numbers) ==
            (IF outputType = "number" THEN numbers
             ELSE IF outputType = "string"
             THEN generateStringExtractionCandidates \o generateQuarterMappingCandidates
             ELSE <<>>)
            \o (IF outputType = "string"
                   /\ RegexTest(firstOutput.s, Regex("^\\d{4}-\\d{2}"))
                THEN numbers ELSE <<>>)
    IN Chosen(exs[1].output, TypeOf(exs[1].output), generateNumberExtractionCandidates)

\* searchComposition(examples): <<candidate>> for the first candidate, in
\* the order of the generators, that maps all examples, <<>> for null.
searchComposition(exs) ==
    LET Found(candidates, hits) ==
            IF hits = {} THEN <<>>
            ELSE <<candidates[CHOOSE k \in hits : \A j \in hits : k <= j]>>
        Search(candidates) ==
            Found(candidates,
                  {k \in 1..Len(candidates) : AllMatch(candidates[k], exs)})
    IN IF exs = <<>> THEN <<>> ELSE Search(Generators(exs))

(***************************************************************************)
(* relational-solver.ts: the quarter mapper and synthesizeFromExamples.    *)
(***************************************************************************)
quarterRegex == Regex("Q(\\d)-(\\d+)")
NoMonths == [q \in Digit |-> <<>>]
\* The loop of buildQuarterMapper: <<quarterToMonth>>, or <<>> where the
\* code returns null.  String(output) has the form digits-digits only when
\* output is a string.
RECURSIVE QuarterLoop(_, _)
QuarterLoop(exs, quarterToMonth) ==
    IF exs = <<>> THEN <<quarterToMonth>>
    ELSE LET Learn(match, output, outputMatch) ==
                 IF ~match.found THEN <<>>
                 ELSE IF output.t # "string" \/ ~outputMatch.found THEN <<>>
                 ELSE IF outputMatch.groups[2] # match.groups[3] THEN <<>>
                 ELSE QuarterLoop(Tail(exs),
                        [quarterToMonth EXCEPT
                            ![match.groups[2][1]] = outputMatch.groups[3]])
         IN Learn(RegexMatch(Head(exs).input, quarterRegex), Head(exs).output,
                  RegexMatch(Head(exs).output.s, Regex("^(\\d+)-(\\d+)$")))
buildQuarterMapper(exs) == QuarterLoop(exs, NoMonths)

\* The number of the quarter itself, padded, taken for its month.
InferredMonthIsQuarter(q) == <<"0", q>>

\* String((q - 1) * 3 + 1).padStart(2, "0") for a quarter digit q.
InferredMonth(q) ==
    LET DigitChar(d) == CHOOSE ch \in Digit : DigitValue(ch) = d
        Padded(v) == IF v < 0 THEN <<"-", DigitChar(0 - v)>>
                     ELSE <<DigitChar(v \div 10), DigitChar(v % 10)>>
    IN Padded((DigitValue(q) - 1) * 3 + 1)
\* The closure buildQuarterMapper returns, applied to input.
QuarterMapper(quarterToMonth, input) ==
    LET Month(quarter) == IF quarterToMonth[quarter] # <<>>
                          THEN quarterToMonth[quarter] ELSE InferredMonth(quarter)
        Mapped(match) ==
            IF ~match.found THEN JStr(input)
            ELSE JStr(match.groups[3] \o <<"-">> \o Month(match.groups[2][1]))
    IN Mapped(RegexMatch(input, quarterRegex))

\* The `apply` of a SynthesisResult and of the other entry points' programs.
ApplyTo(kind, months, composition) ==
    [kind |-> kind, months |-> months, composition |-> composition]
ApplyNull == ApplyTo("null", NoMonths, Composition(<<>>))
SynthesisResult(success, composition, apply) ==
    [success |-> success, composition |-> composition, apply |-> apply]

synthesizeFromExamples(exs) ==
    LET Failure == SynthesisResult(FALSE, Composition(<<>>), ApplyNull)
        Searched(composition) ==
            IF composition # <<>>
            THEN SynthesisResult(TRUE, composition[1],
                                 ApplyTo("composition", NoMonths, composition[1]))
            ELSE Failure
        Mapped(mapper) ==
            IF /\ \E k \in 1..Len(exs) : RegexTest(exs[k].input, Regex("Q\\d-\\d+"))
               /\ mapper # <<>>
               /\ \A k \in 1..Len(exs) :
                     StrictEq(QuarterMapper(mapper[1], exs[k].input), exs[k].output)
            THEN SynthesisResult(TRUE, generateQuarterMappingCandidates[1],
                                 ApplyTo("quarter", mapper[1], Composition(<<>>)))
            ELSE Searched(searchComposition(exs))
    IN IF exs = <<>> THEN Failure ELSE Mapped(buildQuarterMapper(exs))

(***************************************************************************)
(* synthesis/relational/interpreter.ts: expressions and their evaluation.  *)
(***************************************************************************)
inputVar == [type |-> "var", name |-> "input"]
MatchExpr(str, pattern, group) ==
    [type |-> "match", str |-> str, pattern |-> pattern, group |-> group]
ReplaceExpr(str, pattern, replacement) ==
    [type |-> "replace", str |-> str, pattern |-> pattern, replacement |-> replacement]
ParseIntExpr(str) == [type |-> "parseInt", str |-> str]
ParseFloatExpr(str) == [type |-> "parseFloat", str |-> str]

EXTRACTION_PATTERNS ==
    << "\\$([\\d,]+)", "\\$([\\d,\\.]+)", "(\\d+)%", "(\\d+)", "([\\d,]+)",
       ":\\s*\\$?([\\d,]+)" >>

\* The answers of programStructureo, in the order of its conde clauses.
programStructureo ==
    << [kind |-> "parseFloat_match", group |-> 1],
       [kind |-> "parseInt_match", group |-> 1],
       [kind |-> "parseFloat_replace_match", group |-> 1],
       [kind |-> "match", group |-> 0],
       [kind |-> "match", group |-> 1] >>

\* An enumeration by pattern index and then by structure index.
enumerateCandidatesPatternMajor(maxCandidates) ==
    LET n == Len(programStructureo) * Len(EXTRACTION_PATTERNS)
        all == [k \in 1..n |->
                  [structure |-> programStructureo[((k - 1) % Len(programStructureo)) + 1],
                   pattern |-> EXTRACTION_PATTERNS[((k - 1) \div Len(programStructureo)) + 1]]]
    IN SubSeq(all, 1, Min(maxCandidates, n))

\* enumerateCandidates(maxCandidates): the first maxCandidates pairs of a
\* structure and a pattern, by structure index and then by pattern index.
enumerateCandidates(maxCandidates) ==
    LET n == Len(programStructureo) * Len(EXTRACTION_PATTERNS)
        all == [k \in 1..n |->
                  [structure |-> programStructureo[((k - 1) \div Len(EXTRACTION_PATTERNS)) + 1],
                   pattern |-> EXTRACTION_PATTERNS[((k - 1) % Len(EXTRACTION_PATTERNS)) + 1]]]
    IN SubSeq(all, 1, Min(maxCandidates, n))

compileCandidate(candidate) ==
    LET m == MatchExpr(inputVar, candidate.pattern, candidate.structure.group)
    IN CASE candidate.structure.kind = "parseFloat_match" -> ParseFloatExpr(m)
         [] candidate.structure.kind = "parseInt_match" -> ParseIntExpr(m)
         [] candidate.structure.kind = "parseFloat_replace_match" ->
                ParseFloatExpr(ReplaceExpr(m, ",", <<>>))
         [] candidate.structure.kind = "match" -> m
         [] OTHER -> MatchExpr(inputVar, candidate.pattern, 0)

\* The value of the JavaScript that exprToCode writes for expr.  A match
\* writes `S.match(/p/)?.[g]` and a replace `S.replace(/p/g, r)`, so a
\* replace that follows a failed match is skipped with the optional chain
\* (sc) and yields undefined; parseInt and parseFloat end the chain.
Chain(v, sc) == [v |-> v, sc |-> sc]
RECURSIVE EvalChain(_, _)
EvalChain(expr, input) ==
    CASE expr.type = "var" -> Chain(input, FALSE)
      [] expr.type = "match" ->
            LET Picked(result) ==
                    IF ~result.found THEN Chain(JUndefined, TRUE)
                    ELSE IF expr.group + 1 > Len(result.groups)
                    THEN Chain(JUndefined, FALSE)
                    ELSE Chain(JStr(result.groups[expr.group + 1]), FALSE)
                Of(str) ==
                    IF str.sc \/ str.v.t = "throw" THEN str
                    ELSE IF str.v.t # "string" THEN Chain(JThrow, FALSE)
                    ELSE Picked(RegexMatch(str.v.s, Regex(expr.pattern)))
            IN Of(EvalChain(expr.str, input))
      [] expr.type = "replace" ->
            LET Of(str) ==
                    IF str.sc \/ str.v.t = "throw" THEN str
                    ELSE IF str.v.t # "string" THEN Chain(JThrow, FALSE)
                    ELSE Chain(JStr(ReplaceAll(str.v.s, expr.pattern, expr.replacement)),
                               FALSE)
            IN Of(EvalChain(expr.str, input))
      [] expr.type \in {"parseInt", "parseFloat"} ->
            LET Of(str) ==
                    CASE str.t = "throw" -> Chain(JThrow, FALSE)
                      [] str.t = "string" ->
                           Chain(IF expr.type = "parseInt" THEN JsParseInt(str.s)
                                 ELSE JsParseFloat(str.s), FALSE)
                      [] str.t = "number" ->
                           Chain(IF expr.type = "parseInt" THEN Truncate(str.n)
                                 ELSE str, FALSE)
                      [] OTHER -> Chain(JNaN, FALSE)
            IN Of(EvalChain(expr.str, input).v)
\* new Function("input", `return ${exprToCode(expr)}`)(input)
RunCode(expr, input) == EvalChain(expr, JStr(input)).v

\* executeExpr: a throw becomes null.
executeExpr(expr, input) ==
    LET Caught(result) == IF result.t = "throw" THEN JNull ELSE result
    IN Caught(RunCode(expr, input))

\* testProgram(expr, examples)
testProgram(expr, exs) ==
    \A k \in 1..Len(exs) : StrictEq(RunCode(expr, exs[k].input), exs[k].output)

\* synthesizeProgram(examples, maxResults)
synthesizeProgram(exs, maxResults) ==
    IF exs = <<>> THEN <<>>
    ELSE LET candidates == enumerateCandidates(100)
             exprs == [k \in 1..Len(candidates) |-> compileCandidate(candidates[k])]
             allPassed(expr) ==
                 \A k \in 1..Len(exs) :
                     StrictEq(executeExpr(expr, exs[k].input), exs[k].output)
             successfulPrograms == SelectSeq(exprs, allPassed)
         IN SubSeq(successfulPrograms, 1, Min(maxResults, Len(successfulPrograms)))

\* The candidates the loop of synthesizeProgram(examples, maxResults) runs
\* on the examples: the loop leaves when maxResults candidates have passed,
\* and otherwise goes through everything enumerateCandidates(100) returned.
candidatesTested(exs, maxResults) ==
    LET candidates == enumerateCandidates(100)
        allPassed(k) ==
            \A j \in 1..Len(exs) :
                StrictEq(executeExpr(compileCandidate(candidates[k]), exs[j].input),
                         exs[j].output)
        Stops(hits) ==
            {k \in hits : Cardinality({j \in hits : j <= k}) = maxResults}
        Count(stops) ==
            IF stops = {} THEN Len(candidates) ELSE CHOOSE k \in stops : TRUE
    IN IF exs = <<>> THEN 0
       ELSE Count(Stops({k \in 1..Len(candidates) : allPassed(k)}))

(***************************************************************************)
(* synthesis/relational/interpreter.ts: SynthesisEngine.                   *)
(***************************************************************************)
\* DEFAULT_CONFIG
maxCandidates == 100
minExamples == 2
\* { ...DEFAULT_CONFIG, ...config } for a config that sets maxCandidates.
EngineConfig(mc) == [maxCandidates |-> mc, minExamples |-> minExamples]

Constraint(type, exs) == [type |-> type, examples |-> exs]
\* The constraint types whose examples are input/output pairs.
ConstraintTypes == {"extraction", "transform"}

\* A SynthesisEngineResult; program is <<expr>> or <<>>.
EngineResult(success, program, error, tested, passed, explored) ==
    [success |-> success, program |-> program, error |-> error,
     testedExamples |-> tested, passedExamples |-> passed,
     candidatesExplored |-> explored]

ExprTemplate(template, patterns) == [template |-> template, patterns |-> patterns]
getTemplatesForConstraint(constraint) ==
    CASE constraint.type = "extraction" ->
            << ExprTemplate("currency",
                            <<"\\$([\\d,]+)", "\\$([\\d,\\.]+)", "([\\d,]+)">>),
               ExprTemplate("direct", <<".*">>) >>
      [] constraint.type = "transform" ->
            << ExprTemplate("replace", <<>>), ExprTemplate("parseInt", <<>>) >>
      [] OTHER -> <<>>

\* template.template(pattern)
Instantiate(template, pattern) ==
    CASE template.template = "currency" ->
            ParseFloatExpr(ReplaceExpr(MatchExpr(inputVar, pattern, 1), ",", <<>>))
      [] template.template = "direct" -> MatchExpr(inputVar, pattern, 0)
      [] template.template = "replace" -> ReplaceExpr(inputVar, pattern, <<>>)
      [] template.template = "parseInt" -> ParseIntExpr(inputVar)

\* The loop of instantiateTemplate over the patterns: <<expr>> for the first
\* pattern whose expression maps the input of the first example to its
\* output, <<>> for null.
RECURSIVE PatternLoop(_, _, _)
PatternLoop(template, patterns, exs) ==
    IF patterns = <<>> THEN <<>>
    ELSE LET Fits(expr) ==
                 IF /\ Len(exs) > 0
                    /\ StrictEq(RunCode(expr, exs[1].input), exs[1].output)
                 THEN <<expr>>
                 ELSE PatternLoop(template, Tail(patterns), exs)
         IN Fits(Instantiate(template, Head(patterns)))
instantiateTemplate(template, exs) == PatternLoop(template, template.patterns, exs)

\* testOnExamples that runs the program on the first example only.
testOnExamplesFirstOnly(program, exs) ==
    LET Passed(e) == StrictEq(RunCode(program, e.input), e.output)
        Failed(e) == ~Passed(e)
    IN [passed |-> SelectSeq(SubSeq(exs, 1, 1), Passed),
        failed |-> SelectSeq(SubSeq(exs, 1, 1), Failed)]

\* testOnExamples(program, examples)
testOnExamples(program, exs) ==
    LET Passed(e) == StrictEq(RunCode(program, e.input), e.output)
        Failed(e) == ~Passed(e)
    IN [passed |-> SelectSeq(exs, Passed), failed |-> SelectSeq(exs, Failed)]

\* The loop of synthesizeFromTemplates from template k on.
RECURSIVE TemplateLoop(_, _, _)
TemplateLoop(templates, k, exs) ==
    IF k > Len(templates)
    THEN EngineResult(FALSE, <<>>, "", 0, 0, Len(templates))
    ELSE LET Tested(result, tested) ==
                 IF tested.failed = <<>>
                 THEN EngineResult(TRUE, result, "", Len(exs), Len(tested.passed), k)
                 ELSE TemplateLoop(templates, k + 1, exs)
             Instantiated(result) ==
                 IF result # <<>> THEN Tested(result, testOnExamples(result[1], exs))
                 ELSE TemplateLoop(templates, k + 1, exs)
         IN Instantiated(instantiateTemplate(templates[k], exs))
\* synthesizeFromTemplates(constraint)
synthesizeFromTemplates(constraint) ==
    TemplateLoop(getTemplatesForConstraint(constraint), 1, constraint.examples)

\* The loop of synthesizeWithMiniKanren from candidate k on.
RECURSIVE CandidateLoop(_, _, _)
CandidateLoop(candidates, k, exs) ==
    IF k > Len(candidates)
    THEN EngineResult(FALSE, <<>>, "NoProgramFound", Len(exs), 0, Len(candidates))
    ELSE IF testProgram(candidates[k], exs)
    THEN EngineResult(TRUE, <<candidates[k]>>, "", Len(exs), Len(exs), k)
    ELSE CandidateLoop(candidates, k + 1, exs)
\* synthesizeWithMiniKanren(constraint), this.config being config.
synthesizeWithMiniKanren(config, constraint) ==
    CandidateLoop(synthesizeProgram(constraint.examples, config.maxCandidates), 1,
                  constraint.examples)

\* synthesize without the minExamples check.
synthesizeNoMinimum(config, constraint) ==
    LET Templates(templateResult) ==
            IF templateResult.success THEN templateResult
            ELSE synthesizeWithMiniKanren(config, constraint)
    IN Templates(synthesizeFromTemplates(constraint))

\* SynthesisEngine.synthesize(constraint), this.config being config.
synthesize(config, constraint) ==
    LET Templates(templateResult) ==
            IF templateResult.success THEN templateResult
            ELSE synthesizeWithMiniKanren(config, constraint)
    IN IF Len(constraint.examples) < config.minExamples
       THEN EngineResult(FALSE, <<>>, "NeedAtLeastMinExamples", 0, 0, 0)
       ELSE Templates(synthesizeFromTemplates(constraint))

(***************************************************************************)
(* synthesis/relational/coordinator.ts: BarlimanCoordinator.               *)
(***************************************************************************)
NoResult == EngineResult(FALSE, <<>>, "", 0, 0, 0)
\* processConstraints(spec) with the private synthesizeFromExamples: the
\* feedback, and the result pushed to the session (<<>> when none is).
processConstraints(exs) ==
    LET Synthesized(result) ==
            [feedback |->
                [type |-> IF result.success /\ result.program # <<>>
                          THEN "synthesis_success" ELSE "synthesis_failed",
                 result |-> result],
             pushed |-> <<result>>]
    IN IF Len(exs) < 2
       THEN [feedback |-> [type |-> "need_constraints", result |-> NoResult],
             pushed |-> <<>>]
       ELSE Synthesized(synthesize(EngineConfig(maxCandidates),
                                   Constraint("extraction", exs)))

\* previousResult.failedExamples || []: no result the engine builds has
\* the field (interpreter.ts declares it and never assigns it).
failedExamples(previousResult) == <<>>

\* SynthesisEngine.refine(previousResult, additionalExamples)
engineRefine(config, previousResult, additionalExamples) ==
    synthesize(config,
               Constraint("extraction",
                          failedExamples(previousResult) \o additionalExamples))

\* BarlimanCoordinator.refine(additionalExamples): the feedback type, the
\* engine's result, and whether it replaces session.currentProgram.
refine(currentProgram, additionalExamples) ==
    LET Refined(result) ==
            [type |-> IF result.success /\ result.program # <<>>
                      THEN "synthesis_success" ELSE "refinement_needed",
             result |-> result]
    IN IF currentProgram = <<>>
       THEN [type |-> "need_constraints", result |-> NoResult]
       ELSE Refined(engineRefine(EngineConfig(maxCandidates), currentProgram[1],
                                 additionalExamples))

(***************************************************************************)
(* sandbox.ts (createSandbox) and session.ts (createSessionManager):       *)
(* in specification SandboxSpec a caller creates sandboxes, runs code in   *)
(* them and disposes them; in specification SessionSpec it gets them from  *)
(* a session manager.                                                      *)
(***************************************************************************)
\* Sandboxes a session manager creates in one run.
MaxSandboxes == 2
\* Sandboxes created with a direct call of createSandbox.
MaxDirect == 1
\* Entries one sandbox's code pushes to `memory`.
MaxMemory == 1
\* The largest maxSubCalls option (the default of the option is 10).
MaxSubCalls == 2
\* execute calls suspended at the same time.
MaxRunning == 1

FilePaths == {"doc.txt"}
\* Document contents; v2 and v2x are two contents with the same MD5 digest.
Contents == {"v1", "v2", "v2x"}
\* hashContent(content): createHash("md5").update(content).digest("hex")
hashContent(content) == IF content = "v1" THEN "d1" ELSE "d2"
\* The maxSubCalls option of the sandboxes.
SubCallOptions == {1, MaxSubCalls}
\* The code run in a sandbox, as its steps: memory.push(..),
\* await llm_query(..), await batch_llm_query([.., ..]).
Codes == {<<"push">>, <<"llm">>, <<"llm", "push">>, <<"llm", "llm">>, <<"batch">>}

\* The state of the closure createSandbox returns.  llmCalls counts the calls
\* of llmQueryFn and pushed the memory.push calls of the sandbox's code.
createSandbox(context, maxSubCalls) ==
    [context |-> context, maxSubCalls |-> maxSubCalls, memory |-> <<>>,
     subCallCount |-> 0, disposed |-> FALSE, llmCalls |-> 0, pushed |-> 0]

\* A dispose() that leaves the sandbox as it is.
disposeNothing(sandbox) == sandbox

\* dispose()
dispose(sandbox) == [sandbox EXCEPT !.disposed = TRUE, !.memory = <<>>]

Bridged(sandbox, error) == [sandbox |-> sandbox, error |-> error]
\* __llmQueryBridge without the check of `disposed`.
llmQueryBridgeAfterDispose(sandbox) ==
    LET Counted(counted) ==
            IF counted.subCallCount > counted.maxSubCalls
            THEN Bridged(counted, "Max sub-calls limit exceeded")
            ELSE Bridged([counted EXCEPT !.llmCalls = @ + 1], "")
    IN Counted([sandbox EXCEPT !.subCallCount = @ + 1])

\* __llmQueryBridge without the check of maxSubCalls.
llmQueryBridgeNoLimit(sandbox) ==
    IF sandbox.disposed THEN Bridged(sandbox, "Sandbox has been disposed")
    ELSE Bridged([sandbox EXCEPT !.subCallCount = @ + 1, !.llmCalls = @ + 1], "")

\* __llmQueryBridge(prompt, options): the sandbox afterwards and the error
\* thrown ("" when llmQueryFn was called).
llmQueryBridge(sandbox) ==
    LET Counted(counted) ==
            IF counted.subCallCount > counted.maxSubCalls
            THEN Bridged(counted, "Max sub-calls limit exceeded")
            ELSE Bridged([counted EXCEPT !.llmCalls = @ + 1], "")
    IN IF sandbox.disposed THEN Bridged(sandbox, "Sandbox has been disposed")
       ELSE Counted([sandbox EXCEPT !.subCallCount = @ + 1])

\* batch_llm_query of two prompts: the bridge is called for each prompt and
\* Promise.all rejects with the first error.
batch_llm_query(sandbox) ==
    LET Both(first, second) ==
            Bridged(second.sandbox,
                    IF first.error # "" THEN first.error ELSE second.error)
        Second(first) == Both(first, llmQueryBridge(first.sandbox))
    IN Second(llmQueryBridge(sandbox))

\* The sandbox's code from its next step up to the first query that reaches
\* the LLM (status "await", the remaining steps in rest), an error thrown
\* by a query (status "error") or its end (status "done").
Ran(sandbox, status, rest, error) ==
    [sandbox |-> sandbox, status |-> status, rest |-> rest, error |-> error]
RECURSIVE runInContext(_, _)
runInContext(sandbox, code) ==
    IF code = <<>> THEN Ran(sandbox, "done", <<>>, "")
    ELSE IF Head(code) = "push"
    THEN runInContext([sandbox EXCEPT !.memory = Append(@, sandbox.pushed + 1),
                                      !.pushed = @ + 1], Tail(code))
    ELSE LET Queried(r) ==
                 IF r.error # "" THEN Ran(r.sandbox, "error", <<>>, r.error)
                 ELSE Ran(r.sandbox, "await", Tail(code), "")
         IN Queried(IF Head(code) = "llm" THEN llmQueryBridge(sandbox)
                    ELSE batch_llm_query(sandbox))

\* A Session of the manager; sandbox 0 stands for no entry in the map.
Session(sandbox, contentHash) == [sandbox |-> sandbox, contentHash |-> contentHash]
NoSession == Session(0, "")

\* What a call returned: the operation, its arguments, the sandbox
\* returned or run, the sandbox the manager held for the path when the
\* call was made (0: none), and the error of an execute.
Ret(op, filePath, content, sandbox, prev, error) ==
    [op |-> op, filePath |-> filePath, content |-> content, sandbox |-> sandbox,
     prev |-> prev, error |-> error]

\* getOrCreate up to `await createSandbox`, with no reuse of a session.
getOrCreateAlwaysNew(filePath, content, maxSubCalls) ==
    LET existing == sessions[filePath]
        Create(sbs, sess) ==
            [reused |-> FALSE, sessions |-> sess,
             sandboxes |-> Append(sbs, createSandbox(content, maxSubCalls))]
    IN IF existing.sandbox # 0
       THEN Create([sandboxes EXCEPT ![existing.sandbox] = dispose(@)],
                   [sessions EXCEPT ![filePath] = NoSession])
       ELSE Create(sandboxes, sessions)

\* getOrCreate(filePath, content, llmFn, options) up to its return of the
\* existing sandbox or to `await createSandbox`: the sandboxes and the map
\* afterwards.
getOrCreate(filePath, content, maxSubCalls) ==
    LET newHash == hashContent(content)
        existing == sessions[filePath]
        Create(sbs, sess) ==
            [reused |-> FALSE, sessions |-> sess,
             sandboxes |-> Append(sbs, createSandbox(content, maxSubCalls))]
    IN IF existing.sandbox # 0
       THEN IF existing.contentHash # newHash
            THEN Create([sandboxes EXCEPT ![existing.sandbox] = dispose(@)],
                        [sessions EXCEPT ![filePath] = NoSession])
            ELSE [reused |-> TRUE, sessions |-> sessions, sandboxes |-> sandboxes]
       ELSE Create(sandboxes, sessions)

\* No sandbox, an empty session map, no call suspended.
SbxIdle ==
    /\ sandboxes = <<>>
    /\ sessions = [p \in FilePaths |-> NoSession]
    /\ creating = <<>>
    /\ running = <<>>
    /\ ret = Ret("none", "", "", 0, 0, "")

\* createSandbox(context, llmQueryFn, {maxSubCalls}) called directly.
CreateSandbox(context, maxSubCalls) ==
    /\ Len(sandboxes) < MaxDirect
    /\ sandboxes' = Append(sandboxes, createSandbox(context, maxSubCalls))
    /\ ret' = Ret("createSandbox", "", "", 0, 0, "")
    /\ UNCHANGED <<sessions, creating, running, nucVars, mcpVars, synVars, toolVars>>

\* sandbox.dispose() called by the owner of a sandbox the manager does not
\* hold.
Dispose(sb) ==
    /\ \A p \in FilePaths : sessions[p].sandbox # sb
    /\ \A k \in 1..Len(creating) : creating[k].sandbox # sb
    /\ sandboxes' = [sandboxes EXCEPT ![sb] = dispose(@)]
    /\ ret' = Ret("dispose", "", "", 0, 0, "")
    /\ UNCHANGED <<sessions, creating, running, nucVars, mcpVars, synVars, toolVars>>

\* The code of an execute call went from `code` on: the call returns, or
\* stays suspended at an llm query.  `returned` says that the call has
\* returned already (its timeout fired): then the end of the code is seen
\* by no caller.
Proceed(op, sb, r, others, returned) ==
    /\ Len(r.sandbox.memory) <= MaxMemory
    /\ r.sandbox.subCallCount <= r.sandbox.maxSubCalls + 1
    /\ sandboxes' = [sandboxes EXCEPT ![sb] = r.sandbox]
    /\ IF r.status = "await"
       THEN /\ Len(others) < MaxRunning
            /\ running' = Append(others, [sandbox |-> sb, code |-> r.rest,
                                          returned |-> returned])
            /\ ret' = Ret("suspended", "", "", 0, 0, "")
       ELSE /\ running' = others
            /\ ret' = IF returned THEN Ret("abandoned", "", "", sb, 0, r.error)
                       ELSE Ret(op, "", "", sb, 0, r.error)

\* sandbox.execute(code), by a caller the sandbox has been returned to.
Execute(sb, code) ==
    /\ \A k \in 1..Len(creating) : creating[k].sandbox # sb
    /\ IF sandboxes[sb].disposed
       THEN /\ ret' = Ret("execute", "", "", sb, 0, "Sandbox has been disposed")
            /\ UNCHANGED <<sandboxes, running>>
       ELSE \E r \in {runInContext(sandboxes[sb], code)} :
                Proceed("execute", sb, r, running, FALSE)
    /\ UNCHANGED <<sessions, creating, nucVars, mcpVars, synVars, toolVars>>

\* The LLM answers the query the k-th suspended execute call waits for; the
\* code of the call goes on.
LlmReturn(k) ==
    /\ \E r \in {runInContext(sandboxes[running[k].sandbox], running[k].code)} :
          Proceed("resumed", running[k].sandbox, r,
                  SubSeq(running, 1, k - 1) \o SubSeq(running, k + 1, Len(running)),
                  running[k].returned)
    /\ UNCHANGED <<sessions, creating, nucVars, mcpVars, synVars, toolVars>>

\* The timer of the k-th suspended execute call fires first: Promise.race
\* rejects and the call returns the timeout error.  Nothing is done to the
\* code, which stays suspended at its query.
Timeout(k) ==
    /\ ~running[k].returned
    /\ running' = [running EXCEPT ![k].returned = TRUE]
    /\ ret' = Ret("execute", "", "", running[k].sandbox, 0, "Execution timeout")
    /\ UNCHANGED <<sandboxes, sessions, creating, nucVars, mcpVars, synVars, toolVars>>

\* sessionManager.getOrCreate(filePath, content, llmFn, {maxSubCalls}) up to
\* its return of the existing sandbox or to `await createSandbox`.
GetOrCreate(filePath, content, maxSubCalls) ==
    /\ \E r \in {getOrCreate(filePath, content, maxSubCalls)} :
          /\ Len(r.sandboxes) <= MaxSandboxes
          /\ sandboxes' = r.sandboxes
          /\ sessions' = r.sessions
          /\ IF r.reused
             THEN /\ creating' = creating
                  /\ ret' = Ret("getOrCreate", filePath, content,
                                sessions[filePath].sandbox,
                                sessions[filePath].sandbox, "")
             ELSE /\ creating' = Append(creating,
                        [filePath |-> filePath, content |-> content,
                         sandbox |-> Len(r.sandboxes),
                         prev |-> sessions[filePath].sandbox])
                  /\ ret' = Ret("creating", "", "", 0, 0, "")
    /\ UNCHANGED <<running, nucVars, mcpVars, synVars, toolVars>>

\* The oldest suspended getOrCreate goes on after `await createSandbox`:
\* it stores the session and returns the sandbox.
GetOrCreateReturn ==
    /\ creating # <<>>
    /\ LET c == Head(creating)
       IN /\ sessions' = [sessions EXCEPT ![c.filePath] =
                              Session(c.sandbox, hashContent(c.content))]
          /\ ret' = Ret("getOrCreate", c.filePath, c.content, c.sandbox, c.prev, "")
    /\ creating' = Tail(creating)
    /\ UNCHANGED <<sandboxes, running, nucVars, mcpVars, synVars, toolVars>>

\* sessionManager.clear(filePath)
Clear(filePath) ==
    /\ IF sessions[filePath].sandbox # 0
       THEN /\ sandboxes' = [sandboxes EXCEPT ![sessions[filePath].sandbox] = dispose(@)]
            /\ sessions' = [sessions EXCEPT ![filePath] = NoSession]
       ELSE UNCHANGED <<sandboxes, sessions>>
    /\ ret' = Ret("clear", "", "", 0, 0, "")
    /\ UNCHANGED <<creating, running, nucVars, mcpVars, synVars, toolVars>>

\* sessionManager.clearAll()
ClearAll ==
    /\ sandboxes' = [sb \in 1..Len(sandboxes) |->
                       IF \E p \in FilePaths : sessions[p].sandbox = sb
                       THEN dispose(sandboxes[sb]) ELSE sandboxes[sb]]
    /\ sessions' = [p \in FilePaths |-> NoSession]
    /\ ret' = Ret("clearAll", "", "", 0, 0, "")
    /\ UNCHANGED <<creating, running, nucVars, mcpVars, synVars, toolVars>>

SandboxNext ==
    \/ \E maxSubCalls \in SubCallOptions : CreateSandbox("v1", maxSubCalls)
    \/ \E sb \in 1..Len(sandboxes) : Dispose(sb)
    \/ \E sb \in 1..Len(sandboxes), code \in Codes : Execute(sb, code)
    \/ \E k \in 1..Len(running) : LlmReturn(k)

\* A sandbox whose execute calls can time out while their code waits for
\* the LLM.
TimeoutNext ==
    \/ \E maxSubCalls \in SubCallOptions : CreateSandbox("v1", maxSubCalls)
    \/ \E sb \in 1..Len(sandboxes) : Dispose(sb)
    \/ \E sb \in 1..Len(sandboxes), code \in Codes : Execute(sb, code)
    \/ \E k \in 1..Len(running) : LlmReturn(k)
    \/ \E k \in 1..Len(running) : Timeout(k)

SessionNext ==
    \/ \E filePath \in FilePaths, content \in Contents :
          GetOrCreate(filePath, content, 1)
    \/ GetOrCreateReturn
    \/ \E sb \in 1..Len(sandboxes) : Execute(sb, <<"push">>)
    \/ \E filePath \in FilePaths : Clear(filePath)
    \/ ClearAll

(***************************************************************************)
(* Callers of the synthesis entry points (specification SynthSpec).  The   *)
(* caller builds an example list from Pool and hands it to                 *)
(* synthesizeFromExamples, SynthesisEngine.synthesize, synthesizeProgram   *)
(* or BarlimanCoordinator.processConstraints; `out` is what the last call  *)
(* returned for the list in `examples`.                                    *)
(***************************************************************************)
MaxExamples == 2
\* Constraints one coordinator session accepts in the model.
MaxConstraints == 2

Pool ==
    { Ex(<<"$", "1", "0", "0", "0">>, JNum(100000)),
      Ex(<<"$", "2", ".", "5">>, JNum(250)),
      Ex(<<"$", "1", ",", "0", "0", "0">>, JNum(100000)),
      Ex(<<"$", "1", "0", "0", "0">>, JStr(<<"1", "0", "0", "0">>)),
      Ex(<<"Q", "1", "-", "2", "0", "2", "4">>, JStr(<<"2", "0", "2", "4", "-", "0", "1">>)),
      Ex(<<"Q", "2", "-", "2", "0", "2", "4">>, JStr(<<"2", "0", "2", "4", "-", "0", "4">>)),
      Ex(<<"Q", "1", "-", "2", "0", "2", "4">>, JStr(<<"2", "0", "2", "4", "-", "0", "2">>)) }

\* f(input) for the `apply` of a SynthesisResult.
Apply(f, input) ==
    CASE f.kind = "quarter" -> QuarterMapper(f.months, input)
      [] f.kind = "composition" -> evaluateComposition(f.composition, input)
      [] OTHER -> JNull

Out(entry, success, apply, result, programs, type, config) ==
    [entry |-> entry, success |-> success, apply |-> apply, result |-> result,
     programs |-> programs, type |-> type, config |-> config]
NoOut == Out("none", FALSE, ApplyNull, NoResult, <<>>, "", EngineConfig(maxCandidates))


\* No example collected, no call made, an empty coordinator session
\* (coordinator.ts, the constructor).  `base` is the example list of the
\* constraint that session.currentProgram was synthesized from.
SynIdle ==
    /\ examples = <<>>
    /\ out = NoOut
    /\ session = [constraints |-> 0, currentProgram |-> <<>>, base |-> <<>>]

(***************************************************************************)
(* The search tools createSandbox installs in the VM context (sandbox.ts,  *)
(* the code of initCode).  A string is the sequence of its UTF-16 code     *)
(* units: "a" is a letter, "H" a high and "L" a low surrogate, so that     *)
(* <<"H", "L">> is one character outside the basic plane.                  *)
(***************************************************************************)
MaxDocLen == 3
MaxLines == 3

Units == {"a", "H", "L"}
Contexts == UNION {[1..n -> Units] : n \in 0..MaxDocLen}

\* The regular expressions passed to grep:
\*   ""    matches the empty string everywhere
\*   "a"   the letter
\*   "a*"  the longest run of the letter, the empty run included
\*   "."   one character
Patterns == {"", "a", "a*", "."}

\* The flags argument of grep, to which g, m and i are added; "u" makes the
\* RegExp match by code points.
GrepFlags == {"", "u"}
fullUnicode(flags) == flags = "u"

\* The code units at index and index + 1 (from 0) are a surrogate pair.
IsPairAt(S, index) ==
    /\ index >= 0 /\ index + 1 < Len(S)
    /\ S[index + 1] = "H" /\ S[index + 2] = "L"

\* ECMAScript AdvanceStringIndex(S, index, unicode)
AdvanceStringIndex(S, index, unicode) ==
    IF unicode /\ IsPairAt(S, index) THEN index + 2 ELSE index + 1

\* RegExpBuiltinExec step 13.b: the character of the input that element
\* lastIndex of S belongs to, as the index of its first code unit.  With
\* code points as characters, an index between the two halves of a
\* surrogate pair belongs to the character that starts one unit earlier.
InputIndex(S, lastIndex, unicode) ==
    IF unicode /\ IsPairAt(S, lastIndex - 1) THEN lastIndex - 1 ELSE lastIndex

RECURSIVE RunOfA(_, _)
RunOfA(S, p) == IF p < Len(S) /\ S[p + 1] = "a" THEN 1 + RunOfA(S, p + 1) ELSE 0

\* The matcher of the pattern tried at p: the end index of the match, or -1.
RegExpMatcher(S, pattern, unicode, p) ==
    CASE pattern = "" -> p
      [] pattern = "a" -> IF p < Len(S) /\ S[p + 1] = "a" THEN p + 1 ELSE -1
      [] pattern = "a*" -> p + RunOfA(S, p)
      [] OTHER -> IF p < Len(S) THEN AdvanceStringIndex(S, p, unicode) ELSE -1

\* ECMAScript RegExpBuiltinExec for a global RegExp: null (and lastIndex 0)
\* once lastIndex is past the end; otherwise the first match at or after
\* lastIndex, with `index` the lastIndex it was found from, `length` the
\* length of match[0], and lastIndex set to the end of the match.
RECURSIVE RegExpBuiltinExec(_, _, _, _)
RegExpBuiltinExec(S, pattern, unicode, lastIndex) ==
    IF lastIndex > Len(S)
    THEN [matched |-> FALSE, index |-> 0, length |-> 0, lastIndex |-> 0]
    ELSE LET p == InputIndex(S, lastIndex, unicode)
             e == RegExpMatcher(S, pattern, unicode, p)
         IN IF e = -1
            THEN RegExpBuiltinExec(S, pattern, unicode,
                                   AdvanceStringIndex(S, lastIndex, unicode))
            ELSE [matched |-> TRUE, index |-> lastIndex, length |-> e - p,
                  lastIndex |-> e]

(***************************************************************************)
(* fetchWithRetry of the DeepSeek provider.  A call is suspended at        *)
(* `await fetch(url, options)` (phase "fetch") or at the retry delay       *)
(* (phase "delay"); `attempts` counts the calls of fetch, `errors` holds   *)
(* the error of every attempt that threw, `outcome` and `value` what the   *)
(* call returned or threw.                                                 *)
(***************************************************************************)
MAX_RETRIES == 3
RetryOptions == 1..MAX_RETRIES
\* What the fetch of the runtime resolves or rejects with.
Responses == {"200 OK", "429 Too Many Requests", "500 Internal Server Error"}
FetchErrors == {"ECONNRESET", "ETIMEDOUT", "ENOTFOUND"}

Fetch(active, retries, attempt, phase, attempts, errors, outcome, value) ==
    [active |-> active, retries |-> retries, attempt |-> attempt, phase |-> phase,
     attempts |-> attempts, errors |-> errors, outcome |-> outcome, value |-> value]
NoFetch == Fetch(FALSE, 0, 0, "idle", 0, <<>>, "none", "")

\* The loop test `attempt <= retries` and, when it holds, the call of fetch.
loopTest(f) ==
    IF f.attempt <= f.retries
    THEN [f EXCEPT !.phase = "fetch", !.attempts = @ + 1]
    ELSE [f EXCEPT !.active = FALSE, !.phase = "done", !.outcome = "throw",
                   !.value = "Unreachable"]

\* fetchWithRetry(url, options, retries) up to its first await.
fetchWithRetry(retries) ==
    loopTest(Fetch(TRUE, retries, 1, "loop", 0, <<>>, "none", ""))

\* `const response = await fetch(url, options); return response;`
onResolve(f, response) ==
    [f EXCEPT !.active = FALSE, !.phase = "done", !.outcome = "return",
              !.value = response]

\* The catch block without the test of the final attempt.
onRejectNoFinalTest(f, error) ==
    [f EXCEPT !.errors = Append(@, error), !.phase = "delay"]

\* The catch block: the final attempt rethrows, any other waits.
onReject(f, error) ==
    IF f.attempt = f.retries
    THEN [f EXCEPT !.errors = Append(@, error), !.active = FALSE, !.phase = "done",
                   !.outcome = "throw", !.value = error]
    ELSE [f EXCEPT !.errors = Append(@, error), !.phase = "delay"]

\* The state of one grep call.  `results` is the results array as far as
\* it is looked at: for every index the number of zero-width entries pushed
\* with that index, counted up to 2 (2 stands for "more than one"), and the
\* set of the non-empty entries as <<index, length>>.
Scan(context, pattern, flags, lastIndex, scanning, zeroWidth, matches) ==
    [context |-> context, pattern |-> pattern, flags |-> flags,
     lastIndex |-> lastIndex, scanning |-> scanning,
     zeroWidth |-> zeroWidth, matches |-> matches]
NoResults == [i \in 0..(MaxDocLen + 1) |-> 0]
NoScan == Scan(<<>>, "", "", 0, FALSE, NoResults, {})

\* One iteration of `while ((match = regex.exec(context)) !== null)`:
\* results.push(...), then `if (match[0].length === 0) regex.lastIndex++`.
grepIteration(g, match) ==
    IF ~match.matched
    THEN [g EXCEPT !.scanning = FALSE, !.lastIndex = 0]
    ELSE [g EXCEPT
            !.zeroWidth[match.index] =
                IF match.length = 0 THEN (IF @ < 2 THEN @ + 1 ELSE 2) ELSE @,
            !.matches =
                IF match.length = 0 THEN @ ELSE @ \cup {<<match.index, match.length>>},
            !.lastIndex =
                IF match.length = 0 THEN match.lastIndex + 1 ELSE match.lastIndex]

\* locate_line(start, end) on a context of totalLines lines: the numbers
\* (from 1) of the lines it joins; <<>> is the empty string.  hasEnd is
\* FALSE when the call has one argument (`end === undefined`).
LineSlice(startIdx, endIdx) == [i \in 1..(endIdx - startIdx + 1) |-> startIdx + i]
locate_line(totalLines, start, hasEnd, end) ==
    LET startIdx == IF start < 0 THEN totalLines + start ELSE start - 1
        endIdx0 == IF ~hasEnd THEN startIdx
                   ELSE IF end < 0 THEN totalLines + end ELSE end - 1
        endIdx1 == IF endIdx0 < 0 THEN 0 ELSE endIdx0
        endIdx == IF endIdx1 >= totalLines THEN totalLines - 1 ELSE endIdx1
    IN IF startIdx < 0 \/ startIdx >= totalLines THEN <<>>
       ELSE IF startIdx > endIdx THEN LineSlice(endIdx, startIdx)
       ELSE LineSlice(startIdx, endIdx)

Located(totalLines, start, hasEnd, end, result) ==
    [totalLines |-> totalLines, start |-> start, hasEnd |-> hasEnd, end |-> end,
     result |-> result]
NoLocated == Located(0, 0, FALSE, 0, <<>>)

ToolIdle ==
    /\ scan = NoScan
    /\ located = NoLocated
    /\ fetching = NoFetch

\* The tools are synchronous functions of one VM context: a call starts
\* when no other is under way, and `scan` and `located` describe the last
\* call only.
\* grep(pattern, flags) up to the first test of the loop condition.
Grep(context, pattern, flags) ==
    /\ ~scan.scanning
    /\ scan' = Scan(context, pattern, flags, 0, TRUE, NoResults, {})
    /\ located' = NoLocated
    /\ UNCHANGED <<fetching, nucVars, mcpVars, synVars, sbxVars>>

\* One pass through the loop of grep, or its exit.
GrepIteration ==
    /\ scan.scanning
    /\ \E match \in {RegExpBuiltinExec(scan.context, scan.pattern,
                                       fullUnicode(scan.flags), scan.lastIndex)} :
          scan' = grepIteration(scan, match)
    /\ UNCHANGED <<located, fetching, nucVars, mcpVars, synVars, sbxVars>>

\* locate_line(start, end)
LocateLine(totalLines, start, hasEnd, end) ==
    /\ ~scan.scanning
    /\ located' = Located(totalLines, start, hasEnd, end,
                          locate_line(totalLines, start, hasEnd, end))
    /\ scan' = NoScan
    /\ UNCHANGED <<fetching, nucVars, mcpVars, synVars, sbxVars>>

\* createDeepSeekProvider.query calls fetchWithRetry; a new call starts
\* when the last one has ended.
FetchWithRetry(retries) ==
    /\ ~fetching.active
    /\ fetching' = fetchWithRetry(retries)
    /\ UNCHANGED <<scan, located, nucVars, mcpVars, synVars, sbxVars>>

\* The fetch of the current attempt resolves.
FetchResolve(response) ==
    /\ fetching.active /\ fetching.phase = "fetch"
    /\ fetching' = onResolve(fetching, response)
    /\ UNCHANGED <<scan, located, nucVars, mcpVars, synVars, sbxVars>>

\* The fetch of the current attempt rejects.
FetchReject(error) ==
    /\ fetching.active /\ fetching.phase = "fetch"
    /\ fetching' = onReject(fetching, error)
    /\ UNCHANGED <<scan, located, nucVars, mcpVars, synVars, sbxVars>>

\* The fetch of the current attempt settles.
FetchSettles ==
    \/ \E response \in Responses : FetchResolve(response)
    \/ \E error \in FetchErrors : FetchReject(error)

\* The timer of RETRY_DELAY_MS fires: attempt++ and the loop test.
RetryDelayElapsed ==
    /\ fetching.active /\ fetching.phase = "delay"
    /\ fetching' = loopTest([fetching EXCEPT !.attempt = @ + 1])
    /\ UNCHANGED <<scan, located, nucVars, mcpVars, synVars, sbxVars>>

FetchNext ==
    \/ \E retries \in RetryOptions : FetchWithRetry(retries)
    \/ \E response \in Responses : FetchResolve(response)
    \/ \E error \in FetchErrors : FetchReject(error)
    \/ RetryDelayElapsed

LineArgs == (0 - MaxLines - 1)..(MaxLines + 2)

ToolNext ==
    \/ \E context \in Contexts, pattern \in Patterns, flags \in GrepFlags :
          Grep(context, pattern, flags)
    \/ GrepIteration
    \/ \E totalLines \in 1..MaxLines, start \in LineArgs, end \in LineArgs :
          LocateLine(totalLines, start, TRUE, end)
    \/ \E totalLines \in 1..MaxLines, start \in LineArgs :
          LocateLine(totalLines, start, FALSE, 0)

Init == NucInit /\ McpIdle /\ SynIdle /\ SbxIdle /\ ToolIdle
Spec == Init /\ [][Next]_vars
McpSpec == Init /\ [][McpNext]_vars
McpFilesSpec == Init /\ [][McpFilesNext]_vars

\* The caller adds an example to the list it is going to pass.
AddExample(e) ==
    /\ Len(examples) < MaxExamples
    /\ examples' = Append(examples, e)
    /\ out' = NoOut
    /\ UNCHANGED <<session, nucVars, mcpVars, sbxVars, toolVars>>

\* relational-solver.ts synthesizeFromExamples(examples)
SynthesizeFromExamples ==
    /\ \E r \in {synthesizeFromExamples(examples)} :
          out' = Out("solver", r.success, r.apply, NoResult, <<>>, "",
                     EngineConfig(maxCandidates))
    /\ UNCHANGED <<examples, session, nucVars, mcpVars, sbxVars, toolVars>>

\* new SynthesisEngine({maxCandidates: mc}).synthesize(constraint)
Synthesize(type, mc) ==
    /\ \E r \in {synthesize(EngineConfig(mc), Constraint(type, examples))} :
          out' = Out("engine", r.success, ApplyNull, r, <<>>, type, EngineConfig(mc))
    /\ UNCHANGED <<examples, session, nucVars, mcpVars, sbxVars, toolVars>>

\* interpreter.ts synthesizeProgram(examples) with the default maxResults.
SynthesizeProgram ==
    /\ \E ps \in {synthesizeProgram(examples, 5)} :
          out' = Out("program", ps # <<>>, ApplyNull, NoResult, ps, "",
                     EngineConfig(maxCandidates))
    /\ UNCHANGED <<examples, session, nucVars, mcpVars, sbxVars, toolVars>>

\* BarlimanCoordinator.processConstraints(spec): the constraint and the
\* result are pushed to the session, a successful result becomes
\* session.currentProgram.
ProcessConstraints ==
    /\ \E r \in {processConstraints(examples)} :
          /\ r.pushed # <<>> => session.constraints < MaxConstraints
          /\ out' = Out("coordinator", r.feedback.type = "synthesis_success",
                        ApplyNull, r.feedback.result, <<>>, r.feedback.type,
                        EngineConfig(maxCandidates))
          /\ session' =
               IF r.pushed = <<>> THEN session
               ELSE [constraints |-> session.constraints + 1,
                     currentProgram |->
                         IF r.feedback.type = "synthesis_success"
                         THEN r.pushed ELSE session.currentProgram,
                     base |->
                         IF r.feedback.type = "synthesis_success"
                         THEN examples ELSE session.base]
    /\ UNCHANGED <<examples, nucVars, mcpVars, sbxVars, toolVars>>

\* coordinator.refine(examples): a successful result replaces
\* session.currentProgram.
Refine ==
    /\ \E r \in {refine(session.currentProgram, examples)} :
          /\ out' = Out("refine", r.type = "synthesis_success", ApplyNull, r.result,
                        <<>>, r.type, EngineConfig(maxCandidates))
          /\ session' =
               IF r.type = "synthesis_success"
               THEN [session EXCEPT !.currentProgram = <<r.result>>,
                                    !.base = examples]
               ELSE session
    /\ UNCHANGED <<examples, nucVars, mcpVars, sbxVars, toolVars>>

\* The caller starts a new example list.
NewExamples ==
    /\ examples # <<>>
    /\ examples' = <<>>
    /\ out' = NoOut
    /\ UNCHANGED <<session, nucVars, mcpVars, sbxVars, toolVars>>

\* The examples a caller of processConstraints and refine draws from.
RefinePool == {e \in Pool : e.input[1] = "$"}

RefineNext ==
    \/ \E e \in RefinePool : AddExample(e)
    \/ NewExamples
    \/ ProcessConstraints
    \/ Refine

SynthNext ==
    \/ \E e \in Pool : AddExample(e)
    \/ SynthesizeFromExamples
    \/ \E type \in ConstraintTypes, mc \in {1, maxCandidates} : Synthesize(type, mc)
    \/ SynthesizeProgram
    \/ ProcessConstraints

SynthSpec == Init /\ [][SynthNext]_vars
RefineSpec == Init /\ [][RefineNext]_vars
SandboxSpec == Init /\ [][SandboxNext]_vars
TimeoutSpec == Init /\ [][TimeoutNext]_vars
SessionSpec == Init /\ [][SessionNext]_vars
\* Every fetch settles and every timer fires.
FetchSpec ==
    Init /\ [][FetchNext]_vars /\ WF_vars(FetchSettles) /\ WF_vars(RetryDelayElapsed)
ToolSpec == Init /\ [][ToolNext]_vars /\ WF_vars(GrepIteration)


(***************************************************************************)
(* Properties of the Nucleus MCP server (specification Spec).              *)
(***************************************************************************)
\* A nucleus_query step that reaches engine.execute.
Reached(c) == isLoaded(engine) /\ c.src # ""

\* C1 (as stated): every nucleus_query, whether it succeeds or fails,
\* increases TURN by exactly 1.
C1_EveryQueryAdvancesTurn ==
    [][\A c \in Commands : NucleusQuery(c) => engine'.turn = engine.turn + 1]_vars

\* C1 (amended): a nucleus_query that reaches engine.execute (a document is
\* loaded and the command is not empty) increases TURN by exactly 1 whether
\* the evaluation succeeds or fails; a query the handler rejects before
\* evaluation (no document loaded, no command) leaves TURN as it was.
C1_TurnAdvancesOncePerExecute ==
    [][\A c \in Commands : NucleusQuery(c) =>
          engine'.turn = engine.turn + (IF Reached(c) THEN 1 ELSE 0)]_vars

\* C1 witness: a failed evaluation was the second turn.
C1_FailedTurnCounted ==
    resp.op = "query" /\ resp.kind = "EvalError" /\ engine.turn = 2

\* C3: after every turn RESULTS is the value of the turn if it succeeded with
\* a value other than Null, and otherwise what it was before the turn.
C3_ResultsIsLastNonNullSuccess ==
    [][\A c \in Commands : (NucleusQuery(c) /\ Reached(c)) =>
          engine'.results =
              IF resp'.kind = "ok" /\ resp'.value # VNull
              THEN resp'.value ELSE engine.results]_vars

\* C3 witness: a turn that evaluated to Null left an earlier RESULTS in place.
C3_NullTurnKeptResults ==
    /\ resp.op = "query" /\ resp.kind = "ok" /\ resp.value = VNull
    /\ engine.results # VNull

\* C4: after every turn _1 is the result of the turn, _k is what _(k-1) was
\* before it for k = 2..HistoryDepth, and no more than HistoryDepth entries
\* are kept.
C4_HistoryRotates ==
    [][\A c \in Commands : (NucleusQuery(c) /\ Reached(c)) =>
          /\ Len(engine'.hist) = Min(Len(engine.hist) + 1, HistoryDepth)
          /\ engine'.hist[1] = resp'.value
          /\ \A k \in 2..HistoryDepth :
                k <= Len(engine'.hist) => engine'.hist[k] = engine.hist[k - 1]]_vars

\* C4 witness: more turns than HistoryDepth have run and the history is full.
C4_OldestEntryDropped ==
    engine.turn > HistoryDepth /\ Len(engine.hist) = HistoryDepth

\* C5: every step that changes TURN, RESULTS or the history of the engine
\* applies a whole turn (TURN + 1, history rotated, RESULTS either kept or
\* set to the new _1) or clears all three; no step applies a part of them.
C5_TurnEffectsAreOneStep ==
    [][(engine'.turn # engine.turn \/ engine'.hist # engine.hist
            \/ engine'.results # engine.results) =>
          \/ /\ engine'.turn = engine.turn + 1
             /\ Len(engine'.hist) >= 1
             /\ engine'.hist =
                  SubSeq(<<engine'.hist[1]>> \o engine.hist, 1,
                         Min(Len(engine.hist) + 1, HistoryDepth))
             /\ engine'.results \in {engine.results, engine'.hist[1]}
          \/ /\ engine'.turn = 0
             /\ engine'.hist = <<>>
             /\ engine'.results = VNull]_vars

\* C5 witness: a failed turn has been applied after a successful one.
C5_FailedTurnApplied ==
    /\ resp.op = "query" /\ resp.kind = "EvalError"
    /\ engine.turn = 2 /\ Len(engine.hist) = 2 /\ engine.results # VNull

\* C6 (as stated): when nucleus_load returns successfully the engine holds the
\* document of that load and no binding, history entry or turn count.
C6_LoadReplacesAndResets ==
    [][\A p \in pending : NucleusLoadOk(p) =>
          /\ isLoaded(engine')
          /\ engine'.doc = FileContent(p.path)
          /\ getBindings(engine') = NoBindings]_vars

\* C7: nucleus_reset clears every binding and sets TURN to 0; the engine
\* keeps its document and stays loaded, so the next nucleus_query is
\* evaluated on the same document.
C7_ResetKeepsDocument ==
    [][NucleusReset =>
          /\ getBindings(engine') = NoBindings
          /\ engine'.doc = engine.doc
          /\ isLoaded(engine') = isLoaded(engine)]_vars

\* C7 witness: a reset answered while a document is loaded.
C7_ResetOnLoadedDocument ==
    /\ resp.op = "reset" /\ isLoaded(engine) /\ Len(engine.doc) = 2
    /\ getBindings(engine) = NoBindings

(***************************************************************************)
(* Properties of nucleus_execute (specification McpSpec).                  *)
(***************************************************************************)
\* What C2 requires of a failed turn that took engine e to engine e2 and
\* answered r.
FailedTurnKept(e, e2, r) ==
    /\ r.value.t = "err"
    /\ e2.results = e.results
    /\ e2.x = e.x
    /\ e2.turn = e.turn + 1
    /\ e2.hist[1] = r.value

\* C2: when the command of a nucleus_execute fails in evaluation, RESULTS and
\* the user binding of the session's engine are what they were when the
\* engine was handed to the call (the cached engine, or the engine just
\* loaded), TURN is one more, and _1 is the error.
C2_FailedExecuteKeepsBindings ==
    [][/\ \A c \in McpCommands, path \in McpPaths, sid \in SessionIds :
            (/\ McpExecute(c, path, sid)
             /\ c.src # ""
             /\ isLoaded(engineSessions[SessionKey(path, sid)])
             /\ mresp'.kind = "EvalError") =>
                FailedTurnKept(engineSessions[SessionKey(path, sid)],
                               engineSessions'[SessionKey(path, sid)], mresp')
       /\ \A g \in gets :
            (McpLoadOk(g) /\ mresp'.kind = "EvalError") =>
                FailedTurnKept(loadContent(NewEngine, FileContent(g.path)),
                               engineSessions'[g.key], mresp')]_vars

\* C2 witness: a session whose second turn failed after binding x in the
\* failing command; x and RESULTS are those of the first turn.
C2_FailedAfterBinding ==
    /\ mresp.kind = "EvalError"
    /\ \E k \in Keys :
          /\ engineSessions[k].turn = 2
          /\ engineSessions[k].x = VInt(1)
          /\ engineSessions[k].results = VInt(1)
          /\ engineSessions[k].hist[1] = VErr("ArityError")

(***************************************************************************)
(* Properties of the synthesizer (specification SynthSpec).                *)
(***************************************************************************)
\* The call whose answer is in `out` was made with the list in `examples`.
Called(entry) == out.entry = entry

\* f(input) = output under ===, for the function the entry point returned.
ReturnedFits(e) ==
    CASE Called("solver") -> StrictEq(Apply(out.apply, e.input), e.output)
      [] Called("engine") \/ Called("coordinator") ->
            StrictEq(RunCode(out.result.program[1], e.input), e.output)
      [] Called("program") ->
            \A j \in 1..Len(out.programs) :
                StrictEq(executeExpr(out.programs[j], e.input), e.output)
      [] OTHER -> TRUE

\* C8: whenever an entry point reports success for the example list, the
\* function it returned (every program, for synthesizeProgram) maps the input
\* of each supplied example to exactly that example's output under ===, which
\* never equates a string with a number.
C8_SuccessFitsEveryExample ==
    out.success => \A k \in 1..Len(examples) : ReturnedFits(examples[k])

\* C8 witness: the engine succeeded on two different examples.
C8_EngineSucceededOnTwo ==
    /\ Called("engine") /\ out.success
    /\ Len(examples) = 2 /\ examples[1] # examples[2]
    /\ out.result.program # <<>>

\* The candidates of the template phase in enumeration order: by template
\* index, then by pattern index.
TemplateCandidates(constraint) ==
    LET templates == getTemplatesForConstraint(constraint)
    IN Flatten([t \in 1..Len(templates) |->
                  [q \in 1..Len(templates[t].patterns) |->
                      Instantiate(templates[t], templates[t].patterns[q])]])

\* C9 (as stated), for the template phase of SynthesisEngine.synthesize:
\* synthesizeFromTemplates returns the first candidate, in enumeration order,
\* that passes every example, and fails only when no candidate passes every
\* example.
C9_FirstPassingCandidate ==
    (Called("engine") /\ Len(examples) >= minExamples) =>
        LET constraint == Constraint(out.type, examples)
            space == TemplateCandidates(constraint)
            passing == {k \in 1..Len(space) : testProgram(space[k], examples)}
            returned == synthesizeFromTemplates(constraint)
        IN IF passing = {} THEN ~returned.success
           ELSE /\ returned.success
                /\ returned.program =
                     <<space[CHOOSE k \in passing : \A j \in passing : k <= j]>>

C11_AtMostMaxCandidatesEvaluated ==
    (/\ Called("engine")
     /\ Len(examples) >= out.config.minExamples
     /\ ~synthesizeFromTemplates(Constraint(out.type, examples)).success) =>
        /\ candidatesTested(examples, out.config.maxCandidates)
              <= out.config.maxCandidates
        /\ ~out.success =>
              /\ out.result.program = <<>>
              /\ out.result.error = "NoProgramFound"


\* An example of the shape (Q[1-4]-YYYY, YYYY-MM).
QuarterShaped(e) ==
    /\ Len(e.input) = 7
    /\ e.input[1] = "Q" /\ e.input[2] \in {"1", "2", "3", "4"} /\ e.input[3] = "-"
    /\ \A k \in 4..7 : e.input[k] \in Digit
    /\ e.output.t = "string"
    /\ Len(e.output.s) = 7
    /\ \A k \in {1, 2, 3, 4, 6, 7} : e.output.s[k] \in Digit
    /\ e.output.s[5] = "-"
\* The first month of quarter q, and the input Qq-2025.
FirstMonth(q) ==
    CASE q = "1" -> <<"0", "1">> [] q = "2" -> <<"0", "4">>
      [] q = "3" -> <<"0", "7">> [] q = "4" -> <<"1", "0">>
NextYear(q) == <<"Q", q, "-", "2", "0", "2", "5">>
\* The returned function came from the quarter specializer and maps every
\* Qq-2025 to 2025- and the first month of quarter q.
ClosedFormReturned ==
    /\ out.success
    /\ out.apply.kind = "quarter"
    /\ \A q \in {"1", "2", "3", "4"} :
          Apply(out.apply, NextYear(q)) =
              JStr(<<"2", "0", "2", "5", "-">> \o FirstMonth(q))

\* C12 (as stated): synthesizeFromExamples on a list in which every pair has
\* the shape (Q[1-4]-YYYY, YYYY-MM) returns the function of the quarter
\* specializer, not a composition of the generic search, and that function
\* is the closed form Q1->01, Q2->04, Q3->07, Q4->10 on the same year.
C12_QuarterShapeGivesClosedForm ==
    (/\ Called("solver")
     /\ examples # <<>>
     /\ \A k \in 1..Len(examples) : QuarterShaped(examples[k])) =>
        ClosedFormReturned

\* C12 (amended): when every pair is (Qq-YYYY, YYYY-MM) with the same year
\* on both sides and MM the first month of quarter q, the function of the
\* quarter specializer is returned and is the closed form on the same year;
\* a function of the specializer learned from other months maps each
\* quarter of the examples, in any year, to the month the examples give.
C12_FirstMonthsGiveClosedForm ==
    Called("solver") =>
        /\ (/\ examples # <<>>
            /\ \A k \in 1..Len(examples) :
                  /\ QuarterShaped(examples[k])
                  /\ examples[k].output.s =
                        SubSeq(examples[k].input, 4, 7) \o <<"-">>
                            \o FirstMonth(examples[k].input[2])) =>
               ClosedFormReturned
        /\ (out.success /\ out.apply.kind = "quarter") =>
               \A k \in 1..Len(examples) :
                   QuarterShaped(examples[k]) =>
                       Apply(out.apply, NextYear(examples[k].input[2])) =
                           JStr(<<"2", "0", "2", "5", "-">>
                                \o SubSeq(examples[k].output.s, 6, 7))

\* C12 witness: synthesizeFromExamples returned the specializer's function
\* for Q1-2024 -> 2024-01 and Q2-2024 -> 2024-04.
C12_QuartersSynthesized ==
    /\ Called("solver")
    /\ Len(examples) = 2
    /\ \A k \in 1..2 :
          /\ QuarterShaped(examples[k])
          /\ examples[k].output.s = <<"2", "0", "2", "4", "-">>
                                       \o FirstMonth(examples[k].input[2])
    /\ examples[1].input # examples[2].input
    /\ out.apply.kind = "quarter"


\* The programs of all structure/pattern pairs that pass every example, by
\* structure index and then by pattern index.
PassingInOrder ==
    LET Program(st, pt) ==
            compileCandidate([structure |-> programStructureo[st],
                              pattern |-> EXTRACTION_PATTERNS[pt]])
        Row(st) == [pt \in 1..Len(EXTRACTION_PATTERNS) |-> Program(st, pt)]
        Passes(expr) ==
            \A k \in 1..Len(examples) :
                StrictEq(executeExpr(expr, examples[k].input), examples[k].output)
    IN SelectSeq(Flatten([st \in 1..Len(programStructureo) |-> Row(st)]), Passes)

Returned(same) ==
    /\ ret.op = "getOrCreate"
    /\ ret.prev # 0
    /\ (sandboxes[ret.prev].context = ret.content) = same

\* What getOrCreate returned is a new sandbox with the content passed and an
\* empty memory, the old one is disposed and the map holds the new one.
Recreated ==
    /\ sandboxes[ret.prev].disposed
    /\ ret.sandbox # ret.prev
    /\ ~sandboxes[ret.sandbox].disposed
    /\ sandboxes[ret.sandbox].memory = <<>>
    /\ sandboxes[ret.sandbox].context = ret.content
    /\ sessions[ret.filePath].sandbox = ret.sandbox

C17_DisposedSandboxRunsNothing ==
    /\ []((ret.op = "execute" /\ sandboxes[ret.sandbox].disposed) =>
            ret.error = "Sandbox has been disposed")
    /\ [][(ret'.op = "execute" /\ sandboxes[ret'.sandbox].disposed) =>
              (sandboxes' = sandboxes /\ running' = running)]_vars
    /\ [][\A sb \in 1..Len(sandboxes) :
              sandboxes'[sb].llmCalls > sandboxes[sb].llmCalls =>
                  ~sandboxes[sb].disposed]_vars

\* C17 witness: execute was called on a sandbox that had run code, called
\* the LLM and then been disposed.
C17_ExecuteAfterDispose ==
    /\ ret.op = "execute"
    /\ sandboxes[ret.sandbox].disposed
    /\ sandboxes[ret.sandbox].llmCalls > 0
    /\ sandboxes[ret.sandbox].pushed > 0


(***************************************************************************)
(* Properties of the loaded document and of the sessions (specifications   *)
(* Spec and McpSpec).                                                      *)
(***************************************************************************)
\* C18 (as stated): once the engine of the Nucleus MCP server holds a
\* loaded document, every step other than the successful return of a
\* nucleus_load leaves it loaded with the same document.
C18_LoadedUntilNextLoadSucceeds ==
    [][isLoaded(engine) =>
          \/ isLoaded(engine') /\ engine'.doc = engine.doc
          \/ \E p \in pending : NucleusLoadOk(p)]_vars

\* C19: as long as no nucleus_load has succeeded, nucleus_query answers
\* `No document loaded` and changes neither the engine (nothing is
\* evaluated, no turn is counted) nor the loads under way, so that a later
\* nucleus_load proceeds as it would have without the query.
C19_QueryBeforeLoadIsNoDocument ==
    [][\A c \in Commands :
          (currentDocument = "none" /\ NucleusQuery(c)) =>
              /\ resp'.op = "query" /\ resp'.kind = "NoDocument"
              /\ engine' = engine
              /\ currentDocument' = currentDocument
              /\ pending' = pending]_vars

\* C19 witness: a query was answered NoDocument after a nucleus_load had
\* failed and before any had succeeded.
C19_RejectedBeforeLoad ==
    /\ resp.op = "query" /\ resp.kind = "NoDocument"
    /\ currentDocument = "none"
    /\ engine.alive
    /\ pending = {}

\* C20: a nucleus_execute call, up to and after the load of its document,
\* changes no engine of the map other than the one of its own session (the
\* sessionId when one is given, the file path otherwise): TURN, RESULTS,
\* history and document of every other session stay as they are.
C20_OtherSessionsUntouched ==
    [][/\ \A c \in McpCommands, path \in McpPaths, sid \in SessionIds :
             McpExecute(c, path, sid) =>
                 \A k \in Keys \ {IF sid # "" THEN sid ELSE path} :
                     engineSessions'[k] = engineSessions[k]
       /\ \A g \in gets :
             (McpLoadOk(g) \/ McpLoadFail(g)) =>
                 \A k \in Keys \ {g.key} :
                     engineSessions'[k] = engineSessions[k]]_vars

\* C20 witness: two sessions on the same file hold different turn counts.
C20_TwoSessionsDiffer ==
    /\ isLoaded(engineSessions["s1"])
    /\ isLoaded(engineSessions["a.txt"])
    /\ engineSessions["s1"].turn # engineSessions["a.txt"].turn
    /\ mresp.op = "execute"

(***************************************************************************)
(* C21: reset() followed by an expression gives what the expression gives  *)
(* as the first turn of a freshly loaded session on the same document,     *)
(* whatever the turns before the reset were: every nucleus_reset step on   *)
(* a loaded engine leaves an engine on which each command returns the      *)
(* result, and leaves the session, that it does on a new engine loaded     *)
(* with the same document.                                                 *)
(***************************************************************************)
SymCommand == Cmd("x", "sym", 0)

C21_ResetThenExecuteIsFreshExecute ==
    [][(isLoaded(engine) /\ NucleusReset) =>
          LET fresh == loadContent(NewEngine, engine.doc)
          IN \A c \in Commands \ {EmptyCommand} :
                /\ ExecResult(engine', c) = ExecResult(fresh, c)
                /\ execute(engine', c) = execute(fresh, c)]_vars

\* witness: a loaded session has been reset and `x` is unbound on it
C21_ResetSessionReadsNoBinding ==
    /\ resp.op = "reset" /\ isLoaded(engine)
    /\ ExecResult(engine, SymCommand).value = VErr("UnboundSymbol")

(***************************************************************************)
(* C22 (as stated): over the whole lifetime of a session TURN is           *)
(* non-negative and never decreases.                                       *)
(***************************************************************************)
C22_TurnNeverDecreases ==
    /\ [](engine.turn >= 0)
    /\ [][engine'.turn >= engine.turn]_vars

\* C22 (amended): TURN is non-negative and no turn decreases it; it goes
\* down only by going back to 0, and only in a nucleus_reset or when a
\* nucleus_load replaces the session.
C22_TurnDecreasesOnlyByResetOrLoad ==
    /\ [](engine.turn >= 0)
    /\ [][\A c \in Commands : NucleusQuery(c) => engine'.turn >= engine.turn]_vars
    /\ [][engine'.turn < engine.turn =>
            /\ engine'.turn = 0
            /\ NucleusReset \/ \E path \in Paths : NucleusLoadBegin(path)]_vars

\* C22 witness: TURN has grown to MaxTurn over successive queries.
C22_TurnGrewToMaxTurn ==
    resp.op = "query" /\ isLoaded(engine) /\ engine.turn = MaxTurn

(***************************************************************************)
(* Properties of the sandbox's search tools (specification ToolSpec).      *)
(***************************************************************************)
\* C24: grep terminates for every pattern and document, and the results
\* never hold more than one zero-width hit for the same position.
C24_GrepTerminatesOneHitPerPosition ==
    /\ [](\A i \in DOMAIN scan.zeroWidth : scan.zeroWidth[i] <= 1)
    /\ (scan.scanning ~> ~scan.scanning)

\* The inclusive slice of the lines start..end of a document of n lines:
\* arguments reordered, each endpoint clamped to 1..n, empty when both
\* endpoints are out of range on the same side.
ClampedSlice(n, start, end) ==
    LET lo == IF start <= end THEN start ELSE end
        hi == IF start <= end THEN end ELSE start
        first == IF lo < 1 THEN 1 ELSE lo
        last == IF hi > n THEN n ELSE hi
    IN IF hi < 1 \/ lo > n THEN <<>> ELSE [i \in 1..(last - first + 1) |-> first + i - 1]

\* C25: a line-range request (start, end) returns the inclusive slice after
\* reordering the arguments and clamping each out-of-range endpoint; it is
\* empty exactly when both endpoints are out of range on the same side.
C25_LinesReorderedAndClamped ==
    located.hasEnd =>
        located.result = ClampedSlice(located.totalLines, located.start, located.end)

(***************************************************************************)
(* C26: at every moment and for every file path at most one sandbox that   *)
(* the session manager created for the path exists undisposed, overlapping *)
(* getOrCreate calls included.  Under SessionSpec every sandbox is made by *)
(* getOrCreate, and FilePaths holds one path, so every sandbox of          *)
(* `sandboxes` was created for that path.                                  *)
(***************************************************************************)
LiveSandboxes == {sb \in 1..Len(sandboxes) : ~sandboxes[sb].disposed}

C26_OneLiveSandboxPerPath ==
    \A filePath \in FilePaths : Cardinality(LiveSandboxes) <= 1

(***************************************************************************)
(* Properties of BarlimanCoordinator.refine (specification RefineSpec).    *)
(***************************************************************************)
\* The current program of the session maps the input of e to its output.
CurrentProgramFits(current, e) ==
    StrictEq(RunCode(current[1].program[1], e.input), e.output)

\* C27: after refine reports synthesis_success the current program returns
\* the expected output on every example of the synthesis that was refined
\* and on every additional example passed to refine.
C27_RefinedProgramFitsAllExamples ==
    [][(Refine /\ out'.type = "synthesis_success") =>
          /\ \A k \in 1..Len(session.base) :
                CurrentProgramFits(session'.currentProgram, session.base[k])
          /\ \A k \in 1..Len(examples) :
                CurrentProgramFits(session'.currentProgram, examples[k])]_vars

(***************************************************************************)
(* C28: every nucleus_execute call evaluates its command against the       *)
(* content of the file its own filePath names: the engine a call executes  *)
(* on, whether found in the map or loaded by the call, holds that file.    *)
(***************************************************************************)
C28_EvaluatedOnOwnFile ==
    /\ [][\A c \in McpCommands, path \in Paths, sid \in SessionIds :
            (/\ McpExecute(c, path, sid)
             /\ c.src # ""
             /\ isLoaded(engineSessions[SessionKey(path, sid)])) =>
                engineSessions[SessionKey(path, sid)].doc = FileContent(path)]_vars
    /\ [][\A g \in gets : McpLoadOk(g) =>
            engineSessions'[g.key].doc = FileContent(g.path)]_vars

(***************************************************************************)
(* C29: once an execute call has returned the timeout error, the code of   *)
(* that call does nothing more to the sandbox: when the LLM answers the    *)
(* query the code was waiting for, nothing is added to memory and          *)
(* llmQueryFn is not called again.                                         *)
(***************************************************************************)
C29_TimedOutCodeDoesNothing ==
    [][\A k \in 1..Len(running) :
          (LlmReturn(k) /\ running[k].returned) =>
              /\ sandboxes'[running[k].sandbox].memory =
                     sandboxes[running[k].sandbox].memory
              /\ sandboxes'[running[k].sandbox].llmCalls =
                     sandboxes[running[k].sandbox].llmCalls]_vars

(***************************************************************************)
(* C30: fetchWithRetry ends after at most `retries` calls of fetch.  It    *)
(* returns the response of the first attempt that resolves (every attempt  *)
(* before it threw, none is made after it), and it throws only when all    *)
(* `retries` attempts threw, and then the error of the last one.           *)
(***************************************************************************)
C30_AtMostRetriesAttempts ==
    /\ [](fetching.attempts <= fetching.retries)
    /\ [](fetching.outcome = "return" =>
            /\ fetching.value \in Responses
            /\ fetching.attempts = Len(fetching.errors) + 1)
    /\ [](fetching.outcome = "throw" =>
            /\ fetching.attempts = fetching.retries
            /\ Len(fetching.errors) = fetching.retries
            /\ fetching.value = fetching.errors[fetching.retries])
    /\ [][\A response \in Responses : FetchResolve(response) =>
            /\ ~fetching'.active
            /\ fetching'.value = response
            /\ fetching'.attempts = fetching.attempts]_vars
    /\ (fetching.active ~> ~fetching.active)

\* C30 witness: all three attempts of a call with the default retries
\* threw, the last with another error than the first, and the call threw
\* the last one.
C30_ThirdAttemptRethrown ==
    /\ fetching.outcome = "throw" /\ fetching.retries = MAX_RETRIES
    /\ fetching.attempts = MAX_RETRIES
    /\ fetching.errors[1] # fetching.errors[MAX_RETRIES]
    /\ fetching.value = fetching.errors[MAX_RETRIES]
====
